---- MODULE Spec2Model ----
(***************************************************************************)
(* The call/create engine and the interpreter loop of the EVM:             *)
(*   prague/vm/interpreter.py       process_message_call,                  *)
(*                                  process_create_message,                *)
(*                                  process_message, execute_code          *)
(*   osaka/vm/__init__.py           Message, Evm, incorporate_child_*      *)
(*   osaka/vm/instructions/system.py       CREATE*, CALL*, RETURN, REVERT, *)
(*                                         SELFDESTRUCT                    *)
(*   osaka/vm/instructions/environment.py  CALLDATACOPY                    *)
(*                                                                         *)
(* The call stack of the recursive interpreter is the sequence `frames`:   *)
(* its last element is the frame being executed, the ones below are the    *)
(* parents suspended inside generic_call / generic_create.  An opcode      *)
(* action runs one handler up to the point where it returns to the loop    *)
(* or enters a child frame; Unwind runs everything between the end of      *)
(* execute_code of a frame and the next opcode of its parent.              *)
(*                                                                         *)
(* The byte-code of a frame is not fixed: every step draws the opcode and  *)
(* the operands the handler pops from small sets, so a run of the model is *)
(* the run of some program.  `stack` holds the words pushed by the         *)
(* handlers of system.py.                                                  *)
(***************************************************************************)
EXTENDS Integers, Sequences, FiniteSets, TLC

(***************************************************************************)
(* Bounds of the model                                                     *)
(***************************************************************************)
\* opcodes dispatched in one transaction
MaxSteps == 3
\* frames on the call stack of the model at one time
MaxFrames == 3

(***************************************************************************)
(* Program constants                                                       *)
(***************************************************************************)
STACK_DEPTH_LIMIT == 1024
MAX_CODE_SIZE == 24576
MAX_INIT_CODE_SIZE == 49152
GAS_CODE_DEPOSIT == 200
GAS_ZERO == 0
GAS_BASE == 2
GAS_VERY_LOW == 3
GAS_COPY == 3
GAS_RETURN_DATA_COPY == 3
GAS_IDENTITY == 15
GAS_IDENTITY_WORD == 3
GAS_CREATE == 32000
GAS_KECCAK256_WORD == 6
GAS_CALL_VALUE == 9000
GAS_CALL_STIPEND == 2300
GAS_NEW_ACCOUNT == 25000
GAS_SELF_DESTRUCT == 5000
GAS_SELF_DESTRUCT_NEW_ACCOUNT == 25000
GAS_WARM_ACCESS == 100
GAS_COLD_ACCOUNT_ACCESS == 2600
GAS_COLD_SLOAD == 2100
GAS_LOG == 375
GAS_STORAGE_UPDATE == 5000
GAS_STORAGE_SET == 20000
REFUND_STORAGE_CLEAR == 4800
\* Uint(2**64 - 1), the last nonce: the integers of the checker end at
\* 2**31 - 1, which stands for it
MAX_NONCE == 2147483647

(***************************************************************************)
(* Values                                                                  *)
(***************************************************************************)
\* Bytes0(b""): the target of a create message
Empty == "empty"
\* evm.error = None, and the exceptions of vm/exceptions.py by name
NoError == "none"
\* code_address = None, of a create message
NoAddress == "None"
ExceptionalHalt ==
  {"OutOfGasError", "InvalidOpcode", "WriteInStaticContext",
   "InvalidContractPrefix", "StackDepthLimitError", "OutOfBoundsRead"}
Revert == "Revert"

\* the accounts of the model: S is the externally owned sender of the
\* transaction, A and B are the accounts calls go to, N is the address
\* most creations are given
Address == {"S", "A", "B", "N", "P"}
\* the one storage slot the model gives every account
Slot == 0

Zeros(n) == [i \in 1..n |-> 0]

Min(a, b) == IF a < b THEN a ELSE b

Max(a, b) == IF a < b THEN b ELSE a

ceil32(n) == ((n + 31) \div 32) * 32

(***************************************************************************)
(* vm/memory.py                                                            *)
(***************************************************************************)
\* memory[start : start + size]
memory_read_bytes(memory, start, size) ==
  SubSeq(memory, start + 1, start + size)

\* memory[start : start + len(value)] = value
memory_write(memory, start, value) ==
  [i \in 1..Len(memory) |->
     IF i > start /\ i <= start + Len(value) THEN value[i - start]
     ELSE memory[i]]

\* right_pad_zero_bytes(buffer[start : start + size], size)
buffer_read(buffer, start, size) ==
  [i \in 1..size |->
     IF start + i <= Len(buffer) THEN buffer[start + i] ELSE 0]

(***************************************************************************)
(* vm/gas.py                                                               *)
(***************************************************************************)
calculate_memory_gas_cost(size_in_bytes) ==
  LET words == ceil32(size_in_bytes) \div 32
  IN  GAS_VERY_LOW * words + (words * words) \div 512

\* the length the memory has after covering one more region
ExtendTo(current, region) ==
  IF region[2] = 0 THEN current
  ELSE Max(ceil32(current), ceil32(region[1] + region[2]))

RECURSIVE ExtendAll(_, _)
ExtendAll(current, regions) ==
  IF regions = <<>> THEN current
  ELSE ExtendAll(ExtendTo(current, Head(regions)), Tail(regions))

calculate_gas_extend_memory(memory, regions) ==
  LET after == ExtendAll(Len(memory), regions)
  IN  [cost |-> calculate_memory_gas_cost(after)
                  - calculate_memory_gas_cost(Len(memory)),
       expand_by |-> after - Len(memory)]

max_message_call_gas(gas) == gas - (gas \div 64)

calculate_message_call_gas(value, gas, gas_left, memory_cost, extra_gas) ==
  LET call_stipend == IF value = 0 THEN 0 ELSE GAS_CALL_STIPEND
      capped ==
        IF gas_left < extra_gas + memory_cost THEN gas
        ELSE Min(gas, max_message_call_gas(gas_left - memory_cost - extra_gas))
  IN  [cost |-> capped + extra_gas, sub_call |-> capped + call_stipend]

init_code_cost(init_code_length) == 2 * (ceil32(init_code_length) \div 32)

code_access_cost(code) == 2 * (ceil32(Len(code)) \div 32)

(***************************************************************************)
(* state.py: the world-state is a function from addresses to accounts      *)
(***************************************************************************)
EMPTY_ACCOUNT == [nonce |-> 0, balance |-> 0, code |-> <<>>, storage |-> 0]

get_account(st, address) == st[address]

account_has_code_or_nonce(st, address) ==
  st[address].nonce # 0 \/ st[address].code # <<>>

account_has_storage(st, address) == st[address].storage # 0

\* the account exists and is not the empty account (nonce, balance, code)
is_account_alive(st, address) ==
  \/ st[address].nonce # 0
  \/ st[address].balance # 0
  \/ st[address].code # <<>>

increment_nonce(st, address) ==
  [st EXCEPT ![address].nonce = @ + 1]

set_code(st, address, code) == [st EXCEPT ![address].code = code]

set_account_balance(st, address, amount) ==
  [st EXCEPT ![address].balance = amount]

destroy_storage(st, address) == [st EXCEPT ![address].storage = 0]

set_storage(st, address, value) == [st EXCEPT ![address].storage = value]

\* the sender is debited first, then the recipient is credited
move_ether(st, sender, recipient, amount) ==
  LET debited == [st EXCEPT ![sender].balance = @ - amount]
  IN  [debited EXCEPT ![recipient].balance = @ + amount]

\* a snapshot saves the world-state and the transient storage
begin_transaction(snaps, st, ts) ==
  Append(snaps, [state |-> st, transient |-> ts])

\* commit drops the last snapshot and keeps the current state
commit_transaction(snaps) == SubSeq(snaps, 1, Len(snaps) - 1)

\* rollback drops the last snapshot and makes it the current state
rollback_transaction(snaps) ==
  [snapshots |-> SubSeq(snaps, 1, Len(snaps) - 1),
   state |-> snaps[Len(snaps)].state,
   transient |-> snaps[Len(snaps)].transient]

(***************************************************************************)
(* utils/address.py: the addresses creations are given.  The hash is not   *)
(* modelled; two creations may be given the address of an account that     *)
(* exists, which is the collision the engine checks for.                   *)
(***************************************************************************)
compute_contract_address(sender, nonce) ==
  IF nonce % 2 = 1 THEN "N" ELSE "B"

compute_create2_contract_address(sender, salt, call_data) ==
  IF salt = 0 THEN "N" ELSE "B"

(***************************************************************************)
(* State of the engine                                                     *)
(***************************************************************************)
VARIABLES
  state,            \* block_env.state: address -> account
  transient,        \* tx_env.transient_storage: address -> word
  snapshots,        \* the open snapshots, innermost last
  created_accounts, \* state.created_accounts
  message,          \* the Message given to process_message_call
  frames,           \* the Evm objects of the running frames, innermost last
  phase,            \* "start", "running", "done"
  result,           \* the MessageCallOutput, once returned
  last,             \* the frame that returned last: `child` as its parent
                    \* saw it, `parent` after the merge, the state at the
                    \* end of execute_code (end_), after process_message
                    \* (pm_) and after the handler's callee returned
  steps,            \* opcodes dispatched so far
  nframes,          \* frames entered so far
  emitted,          \* every log emitted so far, in execution order
  failed            \* the frames that ended with an error, and their descendants

vars ==
  <<state, transient, snapshots, created_accounts, message, frames, phase,
    result, last, steps, nframes, emitted, failed>>

NoResult == [valid |-> FALSE]

NoLast == [valid |-> FALSE]

\* what a frame that has no parent holds in place of its parent's fields
NoSpawn ==
  [gas_left |-> 0, gas_before_forward |-> 0, logs |-> <<>>,
   refund_counter |-> 0, accounts_to_delete |-> {},
   accessed_addresses |-> {}, accessed_storage_keys |-> {},
   warm_code_addresses |-> {}, memory |-> <<>>, state |-> <<>>,
   before |-> <<>>]

(***************************************************************************)
(* osaka/vm/__init__.py: Message                                           *)
(***************************************************************************)
Message(caller, target, current_target, gas, value, data, code_address, code, depth, should_transfer_value, is_static, accessed_addresses, accessed_storage_keys, disable_precompiles, warm_code_addresses, authorizations) ==
  [authorizations |-> authorizations, caller |-> caller, target |-> target, current_target |-> current_target,
   gas |-> gas, value |-> value, data |-> data,
   code_address |-> code_address, code |-> code, depth |-> depth,
   should_transfer_value |-> should_transfer_value, is_static |-> is_static,
   accessed_addresses |-> accessed_addresses,
   accessed_storage_keys |-> accessed_storage_keys,
   disable_precompiles |-> disable_precompiles,
   warm_code_addresses |-> warm_code_addresses]

(***************************************************************************)
(* interpreter.py, execute_code: the Evm a frame starts with.  The fields  *)
(* after `warm_code_addresses` are not fields of Evm: `done` tells that    *)
(* execute_code has returned, `id` numbers the frames, `op` is the opcode  *)
(* that spawned the frame, `out` the output window of that opcode, `spawn` *)
(* the parent just before it called process_message, `pre` the state       *)
(* before the snapshot of process_message, `children` the frames that ran  *)
(* below this one.                                                         *)
(***************************************************************************)
Evm(msg, id, op, out, spawn, pre) ==
  [pc |-> 0, stack |-> <<>>, memory |-> <<>>, gas_left |-> msg.gas,
   logs |-> <<>>, refund_counter |-> 0, running |-> TRUE, message |-> msg,
   output |-> <<>>, accounts_to_delete |-> {}, return_data |-> <<>>,
   error |-> NoError,
   accessed_addresses |-> msg.accessed_addresses,
   accessed_storage_keys |-> msg.accessed_storage_keys,
   warm_code_addresses |-> msg.warm_code_addresses,
   done |-> FALSE, id |-> id, op |-> op, out |-> out, spawn |-> spawn,
   pre |-> pre, children |-> {}]

(***************************************************************************)
(* Inputs of the model                                                     *)
(***************************************************************************)
\* the calldata of the transaction
TopData == <<7, 9>>

\* the gas of the transaction's message
TopGas == 100000

\* the depth of the message given to process_message_call: 0 for the
\* message of a transaction; 1023 stands for a frame that deep in a call
\* chain, so that its children meet the depth limit; 1025 is past the limit
TopDepths == {0, 1023, 1025}

ContractB == [nonce |-> 1, balance |-> 0, code |-> <<91>>, storage |-> 1]

\* S holds ether, A and B are contracts with a non-zero slot, N is empty
InitialState ==
  [a \in Address |->
     CASE a = "S" -> [nonce |-> 1, balance |-> 2, code |-> <<>>, storage |-> 0]
       [] a = "A" -> [nonce |-> 1, balance |-> 1, code |-> <<96>>, storage |-> 1]
       [] a = "B" -> ContractB
       [] OTHER -> EMPTY_ACCOUNT]

\* the authorizations of the transaction (tx_env.authorizations), counted
TopAuthorizations == {0, 1}

\* S calls A with one wei: the message of a transaction that carries an
\* authorization, or a message deep in a call chain
TopMessages ==
  {Message("S", "A", "A", TopGas, 1, TopData, "A", <<96>>, t[1], TRUE, FALSE,
           {"S", "A"}, {}, FALSE, {}, t[2]) :
     t \in {u \in TopDepths \X TopAuthorizations : (u[1] = 0) <=> (u[2] = 1)}}

\* the gas of a transaction that can pay for the deposit of the largest
\* code
DeployGas == 6000000

\* what the address of a created contract may hold before the creation:
\* nothing, ether only, or the storage, nonce or code of an earlier account
TargetAccounts ==
  {EMPTY_ACCOUNT,
   [EMPTY_ACCOUNT EXCEPT !.balance = 1],
   [EMPTY_ACCOUNT EXCEPT !.storage = 1],
   [EMPTY_ACCOUNT EXCEPT !.nonce = 1],
   [EMPTY_ACCOUNT EXCEPT !.code = <<91>>]}

\* the init codes of the creation transactions
InitCodes == {<<239, 1>>, <<7, 9>>}

\* S creates a contract at N: the message of a creation transaction
CreateMessages ==
  {Message("S", Empty, "N", g, v, <<>>, NoAddress, c, 0, TRUE, FALSE,
           {"S", "N"}, {}, FALSE, {}, 0) :
     g \in {300, TopGas, DeployGas}, v \in {0, 1}, c \in InitCodes}

Init ==
  /\ state = InitialState
  /\ transient = [a \in Address |-> 0]
  /\ snapshots = <<>>
  /\ created_accounts = {}
  /\ message \in TopMessages
  /\ frames = <<>>
  /\ phase = "start"
  /\ result = NoResult
  /\ last = NoLast
  /\ steps = 0
  /\ nframes = 0
  /\ emitted = <<>>
  /\ failed = {}

\* a creation transaction
InitCreate ==
  /\ state \in {[InitialState EXCEPT !["N"] = a] : a \in TargetAccounts}
  /\ transient = [a \in Address |-> 0]
  /\ snapshots = <<>>
  /\ created_accounts = {}
  /\ message \in CreateMessages
  /\ frames = <<>>
  /\ phase = "start"
  /\ result = NoResult
  /\ last = NoLast
  /\ steps = 0
  /\ nframes = 0
  /\ emitted = <<>>
  /\ failed = {}

(***************************************************************************)
(* vm/stack.py, vm/gas.py: helpers of the handlers                         *)
(***************************************************************************)
push(evm, value) == [evm EXCEPT !.stack = Append(@, value)]

\* U256.from_be_bytes(address): the word an address is pushed as
AddressWord(address) ==
  CASE address = "S" -> 1 [] address = "A" -> 2
    [] address = "B" -> 3 [] address = "P" -> 5 [] OTHER -> 4

\* charge_gas raises OutOfGasError when this is false
CanCharge(evm, amount) == evm.gas_left >= amount

charge_gas(evm, amount) == [evm EXCEPT !.gas_left = @ - amount]

\* evm.memory += b"\x00" * expand_by
expand(evm, expand_by) == [evm EXCEPT !.memory = @ \o Zeros(expand_by)]

(***************************************************************************)
(* interpreter.py, execute_code: the loop around the handlers              *)
(***************************************************************************)
Top == frames[Len(frames)]

\* the loop is about to fetch an opcode of the innermost frame
Fetching ==
  /\ phase = "running"
  /\ ~Top.done
  /\ steps < MaxSteps

\* an except clause that forgets to take the gas of the frame
Raised_keeps_gas(evm, error) ==
  IF error \in ExceptionalHalt
  THEN [evm EXCEPT !.output = <<>>, !.error = error, !.done = TRUE]
  ELSE [evm EXCEPT !.error = error, !.done = TRUE]

\* a single except clause for ExceptionalHalt and Revert
Raised_revert_halts(evm, error) ==
  [evm EXCEPT !.gas_left = 0, !.output = <<>>, !.error = error,
              !.done = TRUE]

\* except clauses that also clear the running flag
Raised_stops(evm, error) ==
  IF error \in ExceptionalHalt
  THEN [evm EXCEPT !.gas_left = 0, !.output = <<>>, !.error = error,
                   !.running = FALSE, !.done = TRUE]
  ELSE [evm EXCEPT !.error = error, !.running = FALSE, !.done = TRUE]

\* the except clauses of execute_code, lines 312-319
Raised(evm, error) ==
  IF error \in ExceptionalHalt
  THEN [evm EXCEPT !.gas_left = 0, !.output = <<>>, !.error = error,
                   !.done = TRUE]
  ELSE [evm EXCEPT !.error = error, !.done = TRUE]

\* the handler returned: the loop goes on while evm.running
Handled(evm) == [evm EXCEPT !.done = ~evm.running]

\* an opcode that touched nothing but its own frame
Local(evm) ==
  /\ frames' = [frames EXCEPT ![Len(frames)] = evm]
  /\ steps' = steps + 1
  /\ UNCHANGED <<state, transient, snapshots, created_accounts, message,
                 phase, result, last, nframes, emitted, failed>>

\* line 300: pc has reached the end of the code, the frame stops
CodeEnd ==
  /\ phase = "running"
  /\ ~Top.done
  /\ frames' = [frames EXCEPT ![Len(frames)].done = TRUE]
  /\ UNCHANGED <<state, transient, snapshots, created_accounts, message,
                 phase, result, last, steps, nframes, emitted, failed>>

\* lines 301-304: the byte at pc is not an opcode
InvalidOp ==
  /\ Fetching
  /\ Local(Raised(Top, "InvalidOpcode"))

(***************************************************************************)
(* system.py: RETURN, REVERT                                               *)
(***************************************************************************)
return_(evm, memory_start_position, memory_size) ==
  LET extend_memory ==
        calculate_gas_extend_memory(
          evm.memory, <<(<<memory_start_position, memory_size>>)>>)
      charged == charge_gas(evm, GAS_ZERO + extend_memory.cost)
      expanded == expand(charged, extend_memory.expand_by)
  IN  IF ~CanCharge(evm, GAS_ZERO + extend_memory.cost)
      THEN Raised(evm, "OutOfGasError")
      ELSE Handled([expanded EXCEPT
             !.output = memory_read_bytes(expanded.memory,
                          memory_start_position, memory_size),
             !.running = FALSE])

revert(evm, memory_start_index, size) ==
  LET extend_memory ==
        calculate_gas_extend_memory(
          evm.memory, <<(<<memory_start_index, size>>)>>)
      charged == charge_gas(evm, extend_memory.cost)
      expanded == expand(charged, extend_memory.expand_by)
  IN  IF ~CanCharge(evm, extend_memory.cost)
      THEN Raised(evm, "OutOfGasError")
      ELSE Raised([expanded EXCEPT
             !.output = memory_read_bytes(expanded.memory,
                          memory_start_index, size)],
             Revert)

\* the memory windows RETURN and REVERT are given
OutputWindows == {<<0, 2>>}

Return ==
  /\ Fetching
  /\ \E w \in OutputWindows : Local(return_(Top, w[1], w[2]))

RevertOp ==
  /\ Fetching
  /\ \E w \in OutputWindows : Local(revert(Top, w[1], w[2]))

\* the windows of a RETURN that hands back code of the largest size that
\* can be deployed, and of one byte more
LargeWindows == {<<0, MAX_CODE_SIZE>>, <<0, MAX_CODE_SIZE + 1>>}

ReturnLarge ==
  /\ Fetching
  /\ \E w \in LargeWindows : Local(return_(Top, w[1], w[2]))

(***************************************************************************)
(* environment.py: CALLDATACOPY                                            *)
(***************************************************************************)
calldatacopy(evm, memory_start_index, data_start_index, size) ==
  LET words == ceil32(size) \div 32
      copy_gas_cost == GAS_COPY * words
      extend_memory ==
        calculate_gas_extend_memory(
          evm.memory, <<(<<memory_start_index, size>>)>>)
      cost == GAS_VERY_LOW + copy_gas_cost + extend_memory.cost
      expanded == expand(charge_gas(evm, cost), extend_memory.expand_by)
      value == buffer_read(evm.message.data, data_start_index, size)
  IN  IF ~CanCharge(evm, cost)
      THEN Raised(evm, "OutOfGasError")
      ELSE Handled([expanded EXCEPT
             !.memory = memory_write(@, memory_start_index, value),
             !.pc = @ + 1])

CallDataCopy ==
  /\ Fetching
  /\ Local(calldatacopy(Top, 0, 0, 2))

codecopy(evm, memory_start_index, code_start_index, size) ==
  LET words == ceil32(size) \div 32
      copy_gas_cost == GAS_COPY * words
      extend_memory ==
        calculate_gas_extend_memory(
          evm.memory, <<(<<memory_start_index, size>>)>>)
      cost == GAS_VERY_LOW + copy_gas_cost + extend_memory.cost
      expanded == expand(charge_gas(evm, cost), extend_memory.expand_by)
      value == buffer_read(evm.message.code, code_start_index, size)
  IN  IF ~CanCharge(evm, cost)
      THEN Raised(evm, "OutOfGasError")
      ELSE Handled([expanded EXCEPT
             !.memory = memory_write(@, memory_start_index, value),
             !.pc = @ + 1])

CodeCopy ==
  /\ Fetching
  /\ Local(codecopy(Top, 0, 0, 2))

\* an opcode that also wrote the world-state or the transient storage
Wrote(evm, st, ts) ==
  /\ frames' = [frames EXCEPT ![Len(frames)] = evm]
  /\ state' = st
  /\ transient' = ts
  /\ steps' = steps + 1
  /\ UNCHANGED <<snapshots, created_accounts, message, phase, result, last,
                 nframes, emitted, failed>>

(***************************************************************************)
(* instructions/log.py, instructions/storage.py: the handlers that log and *)
(* that write storage and transient storage, with one topic-less log and   *)
(* one slot per account                                                    *)
(***************************************************************************)
LogEntry(evm) ==
  [address |-> evm.message.current_target, frame |-> evm.id,
   seq |-> Len(emitted) + 1]

log(evm) ==
  IF ~CanCharge(evm, GAS_LOG) THEN Raised(evm, "OutOfGasError")
  ELSE IF evm.message.is_static
  THEN Raised(charge_gas(evm, GAS_LOG), "WriteInStaticContext")
  ELSE Handled([charge_gas(evm, GAS_LOG) EXCEPT
         !.logs = Append(@, LogEntry(evm)), !.pc = @ + 1])

Log ==
  /\ Fetching
  /\ frames' = [frames EXCEPT ![Len(frames)] = log(Top)]
  /\ emitted' = IF log(Top).error = NoError
                THEN Append(emitted, LogEntry(Top)) ELSE emitted
  /\ steps' = steps + 1
  /\ UNCHANGED <<state, transient, snapshots, created_accounts, message,
                 phase, result, last, nframes, failed>>

\* get_storage_original: the value in the outermost snapshot, 0 for an
\* account created in this transaction
get_storage_original(address) ==
  IF address \in created_accounts THEN 0
  ELSE snapshots[1].state[address].storage

sstore_refund(original_value, current_value, new_value) ==
  IF current_value = new_value THEN 0
  ELSE (IF original_value # 0 /\ current_value # 0 /\ new_value = 0
        THEN REFUND_STORAGE_CLEAR ELSE 0)
     + (IF original_value # 0 /\ current_value = 0
        THEN 0 - REFUND_STORAGE_CLEAR ELSE 0)
     + (IF original_value = new_value
        THEN (IF original_value = 0
              THEN GAS_STORAGE_SET - GAS_WARM_ACCESS
              ELSE GAS_STORAGE_UPDATE - GAS_COLD_SLOAD - GAS_WARM_ACCESS)
        ELSE 0)

sstore(evm, st, new_value) ==
  LET target == evm.message.current_target
      original_value == get_storage_original(target)
      current_value == st[target].storage
      cold == <<target, Slot>> \notin evm.accessed_storage_keys
      warmed == [evm EXCEPT !.accessed_storage_keys = @ \cup {<<target, Slot>>}]
      gas_cost ==
        (IF cold THEN GAS_COLD_SLOAD ELSE 0)
        + (IF original_value = current_value /\ current_value # new_value
           THEN (IF original_value = 0 THEN GAS_STORAGE_SET
                 ELSE GAS_STORAGE_UPDATE - GAS_COLD_SLOAD)
           ELSE GAS_WARM_ACCESS)
      charged ==
        [charge_gas(warmed, gas_cost) EXCEPT
           !.refund_counter =
              @ + sstore_refund(original_value, current_value, new_value)]
  IN  IF evm.gas_left <= GAS_CALL_STIPEND THEN Raised(evm, "OutOfGasError")
      ELSE IF ~CanCharge(warmed, gas_cost) THEN Raised(warmed, "OutOfGasError")
      ELSE IF evm.message.is_static THEN Raised(charged, "WriteInStaticContext")
      ELSE Handled([charged EXCEPT !.pc = @ + 1])

SStore ==
  /\ Fetching
  /\ \E new_value \in {0, 1} :
       LET evm == sstore(Top, state, new_value)
       IN  Wrote(evm,
                 IF evm.error = NoError
                 THEN set_storage(state, Top.message.current_target, new_value)
                 ELSE state,
                 transient)

tstore(evm) ==
  IF ~CanCharge(evm, GAS_WARM_ACCESS) THEN Raised(evm, "OutOfGasError")
  ELSE IF evm.message.is_static
  THEN Raised(charge_gas(evm, GAS_WARM_ACCESS), "WriteInStaticContext")
  ELSE Handled([charge_gas(evm, GAS_WARM_ACCESS) EXCEPT !.pc = @ + 1])

TStore ==
  /\ Fetching
  /\ LET evm == tstore(Top)
     IN  Wrote(evm, state,
               IF evm.error = NoError
               THEN [transient EXCEPT ![Top.message.current_target] = 1]
               ELSE transient)

(***************************************************************************)
(* system.py: SELFDESTRUCT                                                 *)
(***************************************************************************)
\* a SELFDESTRUCT without the check of the static context
selfdestruct_ignores_static(evm, st, beneficiary) ==
  LET originator == evm.message.current_target
      gas_cost ==
        GAS_SELF_DESTRUCT
        + (IF beneficiary \notin evm.accessed_addresses
           THEN GAS_COLD_ACCOUNT_ACCESS ELSE 0)
        + (IF ~is_account_alive(st, beneficiary)
              /\ get_account(st, originator).balance # 0
           THEN GAS_SELF_DESTRUCT_NEW_ACCOUNT ELSE 0)
      warmed == [evm EXCEPT !.accessed_addresses = @ \cup {beneficiary}]
      charged == charge_gas(warmed, gas_cost)
      moved ==
        move_ether(st, originator, beneficiary,
                   get_account(st, originator).balance)
      created == originator \in created_accounts
  IN  IF ~CanCharge(warmed, gas_cost)
      THEN [evm |-> Raised(warmed, "OutOfGasError"), state |-> st]
      ELSE [evm |-> Handled([charged EXCEPT
                      !.accounts_to_delete =
                         IF created THEN @ \cup {originator} ELSE @,
                      !.running = FALSE]),
            state |-> IF created
                      THEN set_account_balance(moved, originator, 0)
                      ELSE moved]

\* a SELFDESTRUCT that registers every account for deletion
selfdestruct_always_deletes(evm, st, beneficiary) ==
  LET originator == evm.message.current_target
      gas_cost ==
        GAS_SELF_DESTRUCT
        + (IF beneficiary \notin evm.accessed_addresses
           THEN GAS_COLD_ACCOUNT_ACCESS ELSE 0)
        + (IF ~is_account_alive(st, beneficiary)
              /\ get_account(st, originator).balance # 0
           THEN GAS_SELF_DESTRUCT_NEW_ACCOUNT ELSE 0)
      warmed == [evm EXCEPT !.accessed_addresses = @ \cup {beneficiary}]
      charged == charge_gas(warmed, gas_cost)
      moved ==
        move_ether(st, originator, beneficiary,
                   get_account(st, originator).balance)
      created == originator \in created_accounts
  IN  IF ~CanCharge(warmed, gas_cost)
      THEN [evm |-> Raised(warmed, "OutOfGasError"), state |-> st]
      ELSE IF evm.message.is_static
      THEN [evm |-> Raised(charged, "WriteInStaticContext"), state |-> st]
      ELSE [evm |-> Handled([charged EXCEPT
                      !.accounts_to_delete = @ \cup {originator},
                      !.running = FALSE]),
            state |-> IF created
                      THEN set_account_balance(moved, originator, 0)
                      ELSE moved]

\* a SELFDESTRUCT that zeroes the balance of every account
selfdestruct_always_burns(evm, st, beneficiary) ==
  LET originator == evm.message.current_target
      gas_cost ==
        GAS_SELF_DESTRUCT
        + (IF beneficiary \notin evm.accessed_addresses
           THEN GAS_COLD_ACCOUNT_ACCESS ELSE 0)
        + (IF ~is_account_alive(st, beneficiary)
              /\ get_account(st, originator).balance # 0
           THEN GAS_SELF_DESTRUCT_NEW_ACCOUNT ELSE 0)
      warmed == [evm EXCEPT !.accessed_addresses = @ \cup {beneficiary}]
      charged == charge_gas(warmed, gas_cost)
      moved ==
        move_ether(st, originator, beneficiary,
                   get_account(st, originator).balance)
      created == originator \in created_accounts
  IN  IF ~CanCharge(warmed, gas_cost)
      THEN [evm |-> Raised(warmed, "OutOfGasError"), state |-> st]
      ELSE IF evm.message.is_static
      THEN [evm |-> Raised(charged, "WriteInStaticContext"), state |-> st]
      ELSE [evm |-> Handled([charged EXCEPT
                      !.accounts_to_delete =
                         IF created THEN @ \cup {originator} ELSE @,
                      !.running = FALSE]),
            state |-> set_account_balance(moved, originator, 0)]

selfdestruct(evm, st, beneficiary) ==
  LET originator == evm.message.current_target
      gas_cost ==
        GAS_SELF_DESTRUCT
        + (IF beneficiary \notin evm.accessed_addresses
           THEN GAS_COLD_ACCOUNT_ACCESS ELSE 0)
        + (IF ~is_account_alive(st, beneficiary)
              /\ get_account(st, originator).balance # 0
           THEN GAS_SELF_DESTRUCT_NEW_ACCOUNT ELSE 0)
      warmed == [evm EXCEPT !.accessed_addresses = @ \cup {beneficiary}]
      charged == charge_gas(warmed, gas_cost)
      moved ==
        move_ether(st, originator, beneficiary,
                   get_account(st, originator).balance)
      created == originator \in created_accounts
  IN  IF ~CanCharge(warmed, gas_cost)
      THEN [evm |-> Raised(warmed, "OutOfGasError"), state |-> st]
      ELSE IF evm.message.is_static
      THEN [evm |-> Raised(charged, "WriteInStaticContext"), state |-> st]
      ELSE [evm |-> Handled([charged EXCEPT
                      !.accounts_to_delete =
                         IF created THEN @ \cup {originator} ELSE @,
                      !.running = FALSE]),
            state |-> IF created
                      THEN set_account_balance(moved, originator, 0)
                      ELSE moved]

\* the addresses SELFDESTRUCT is given
Beneficiaries == {"A", "B", "N"}

SelfDestruct ==
  /\ Fetching
  /\ \E beneficiary \in Beneficiaries :
       LET r == selfdestruct(Top, state, beneficiary)
       IN  Wrote(r.evm, r.state, transient)

(***************************************************************************)
(* vm/eoa_delegation.py                                                    *)
(***************************************************************************)
EOA_DELEGATION_MARKER == <<239, 1, 0>>

\* the 20 bytes of an address
AddressBytes(address) == Zeros(19) \o <<AddressWord(address)>>

is_valid_delegation(code) ==
  /\ Len(code) = 23
  /\ SubSeq(code, 1, 3) = EOA_DELEGATION_MARKER

\* Address(code[EOA_DELEGATION_MARKER_LENGTH:])
DelegatedAddress(code) ==
  CHOOSE a \in Address : AddressBytes(a) = SubSeq(code, 4, 23)

access_delegation(evm, st, address) ==
  LET code == get_account(st, address).code
      delegated == DelegatedAddress(code)
  IN  IF ~is_valid_delegation(code)
      THEN [disable_precompiles |-> FALSE, code_address |-> address,
            code |-> code, access_gas_cost |-> 0, evm |-> evm]
      ELSE [disable_precompiles |-> TRUE, code_address |-> delegated,
            code |-> get_account(st, delegated).code,
            access_gas_cost |->
              IF delegated \in evm.accessed_addresses
              THEN GAS_WARM_ACCESS ELSE GAS_COLD_ACCOUNT_ACCESS,
            evm |-> [evm EXCEPT !.accessed_addresses = @ \cup {delegated}]]

\* the refund set_delegation returns for the authorizations of the message
set_delegation(msg) == msg.authorizations * 12500

(***************************************************************************)
(* interpreter.py: entering a frame                                        *)
(***************************************************************************)
\* vm/precompiled_contracts: P is the address of the identity precompile
PRE_COMPILED_CONTRACTS == {"P"}

\* precompiled_contracts/identity.py: the output is the input
identity(evm) ==
  LET data == evm.message.data
      word_count == ceil32(Len(data)) \div 32
      cost == GAS_IDENTITY + GAS_IDENTITY_WORD * word_count
  IN  IF ~CanCharge(evm, cost) THEN Raised(evm, "OutOfGasError")
      ELSE [charge_gas(evm, cost) EXCEPT !.output = data, !.done = TRUE]

\* a dispatch that does not look at disable_precompiles
precompile_dispatch_ignores_flag(evm) ==
  IF evm.message.code_address \in PRE_COMPILED_CONTRACTS
  THEN identity(evm)
  ELSE evm

\* execute_code, lines 291-298: a frame whose code address is a precompile
\* never reaches the loop; it is returned as it was built when the
\* precompiles are disabled for it, else as the precompile leaves it
precompile_dispatch(evm) ==
  IF evm.message.code_address \in PRE_COMPILED_CONTRACTS
  THEN IF evm.message.disable_precompiles
       THEN [evm EXCEPT !.done = TRUE]
       ELSE identity(evm)
  ELSE evm

\* process_message_call, lines 127-132: the code of a message whose code
\* is a delegation designator is the code of the designated account
resolve_delegation(msg, st) ==
  IF is_valid_delegation(msg.code)
  THEN [msg EXCEPT
          !.disable_precompiles = TRUE,
          !.accessed_addresses = @ \cup {DelegatedAddress(msg.code)},
          !.code = get_account(st, DelegatedAddress(msg.code)).code,
          !.code_address = DelegatedAddress(msg.code)]
  ELSE msg

\* a depth check that lets every message in
depth_limit_reached_never(msg) == FALSE

\* process_message, lines 235-236: StackDepthLimitError is raised
depth_limit_reached(msg) == msg.depth > STACK_DEPTH_LIMIT

\* a collision check that does not look at the storage
is_collision_ignores_storage(st, address) ==
  account_has_code_or_nonce(st, address)

\* process_message_call, lines 110-112
is_collision(st, address) ==
  account_has_code_or_nonce(st, address) \/ account_has_storage(st, address)

\* a process_message that moves the value of every message
process_message_entry_always_transfers(msg, st, ts, snaps) ==
  [snapshots |-> begin_transaction(snaps, st, ts),
   state |-> IF msg.value # 0
             THEN move_ether(st, msg.caller, msg.current_target, msg.value)
             ELSE st]

\* process_message, lines 238-244: the snapshot and the value transfer
process_message_entry(msg, st, ts, snaps) ==
  [snapshots |-> begin_transaction(snaps, st, ts),
   state |-> IF msg.should_transfer_value /\ msg.value # 0
             THEN move_ether(st, msg.caller, msg.current_target, msg.value)
             ELSE st]

\* process_create_message, lines 177-194
process_create_message_entry(msg, st, ts, snaps) ==
  [snapshots |-> begin_transaction(snaps, st, ts),
   state |-> increment_nonce(destroy_storage(st, msg.current_target),
                             msg.current_target),
   created_accounts |-> created_accounts \cup {msg.current_target}]

\* what the parent holds when it calls process_message or
\* process_create_message; gas_before_forward is its gas before the gas
\* of the child was taken from it, st the state its handler leaves,
\* `before` the state its handler found
SpawnOf(evm, gas_before_forward, st) ==
  [gas_left |-> evm.gas_left, gas_before_forward |-> gas_before_forward,
   logs |-> evm.logs, refund_counter |-> evm.refund_counter,
   accounts_to_delete |-> evm.accounts_to_delete,
   accessed_addresses |-> evm.accessed_addresses,
   accessed_storage_keys |-> evm.accessed_storage_keys,
   warm_code_addresses |-> evm.warm_code_addresses,
   memory |-> evm.memory, state |-> st, before |-> state]

\* the parent `evm` calls process_message(msg), or
\* process_create_message(msg) when msg is a create message; st is the
\* state the handler leaves
Enter(evm, msg, op, out, gas_before_forward, st) ==
  LET is_create == msg.target = Empty
      outer == IF is_create
               THEN process_create_message_entry(msg, st, transient, snapshots)
               ELSE [snapshots |-> snapshots, state |-> st,
                     created_accounts |-> created_accounts]
      inner == process_message_entry(msg, outer.state, transient,
                                     outer.snapshots)
      pre == [state |-> outer.state, transient |-> transient]
  IN  /\ Len(frames) < MaxFrames
      /\ steps' = steps + 1
      /\ created_accounts' = outer.created_accounts
      /\ UNCHANGED <<transient, message, phase, result, last, emitted, failed>>
      /\ IF depth_limit_reached(msg)
         THEN \* line 236: raised through the handler into the parent's loop
              /\ frames' = [frames EXCEPT ![Len(frames)] =
                              Raised(evm, "StackDepthLimitError")]
              /\ state' = outer.state
              /\ snapshots' = outer.snapshots
              /\ UNCHANGED nframes
         ELSE /\ frames' =
                   Append([frames EXCEPT ![Len(frames)] = evm],
                          precompile_dispatch(
                            Evm(msg, nframes + 1, op, out,
                                SpawnOf(evm, gas_before_forward, st), pre)))
              /\ state' = inner.state
              /\ snapshots' = inner.snapshots
              /\ nframes' = nframes + 1

(***************************************************************************)
(* system.py: CALL, CALLCODE, DELEGATECALL, STATICCALL                     *)
(***************************************************************************)
\* a depth check that is off by one
depth_exceeded_late(evm) == evm.message.depth > STACK_DEPTH_LIMIT

\* lines 100 and 301: the child would be deeper than the limit
depth_exceeded(evm) == evm.message.depth + 1 > STACK_DEPTH_LIMIT

\* a refusal that keeps the gas set aside for the child
refused_call_keeps_sub_call(evm, message_call_gas) ==
  [push(evm, 0) EXCEPT !.return_data = <<>>]

\* a refusal that gives back the charge as well as the gas of the child
refused_call_gives_cost(evm, message_call_gas) ==
  [push(evm, 0) EXCEPT
     !.return_data = <<>>,
     !.gas_left = @ + message_call_gas.cost + message_call_gas.sub_call]

\* lines 415-418: the sender cannot pay `value`, no child is spawned
refused_call(evm, message_call_gas) ==
  [push(evm, 0) EXCEPT
     !.return_data = <<>>, !.gas_left = @ + message_call_gas.sub_call]

\* a generic_call whose child is static for STATICCALL only
generic_call_static_not_inherited(evm, gas, value, caller, to, code_address, should_transfer_value, is_staticcall, input, out, code, disable_precompiles, op, gas_before_forward) ==
  LET cleared == [evm EXCEPT !.return_data = <<>>]
      call_data == memory_read_bytes(evm.memory, input[1], input[2])
      child_message ==
        Message(caller, to, to, gas, value, call_data, code_address, code,
                evm.message.depth + 1, should_transfer_value,
                is_staticcall,
                evm.accessed_addresses, evm.accessed_storage_keys,
                disable_precompiles, evm.warm_code_addresses, 0)
  IN  IF depth_exceeded(evm)
      THEN Local(Handled([push(cleared, 0) EXCEPT
                   !.gas_left = @ + gas, !.pc = @ + 1]))
      ELSE Enter(cleared, child_message, op, out, gas_before_forward, state)

\* generic_call, lines 278-330: up to the call of process_message
generic_call(evm, gas, value, caller, to, code_address, should_transfer_value, is_staticcall, input, out, code, disable_precompiles, op, gas_before_forward) ==
  LET cleared == [evm EXCEPT !.return_data = <<>>]
      call_data == memory_read_bytes(evm.memory, input[1], input[2])
      child_message ==
        Message(caller, to, to, gas, value, call_data, code_address, code,
                evm.message.depth + 1, should_transfer_value,
                IF is_staticcall THEN TRUE ELSE evm.message.is_static,
                evm.accessed_addresses, evm.accessed_storage_keys,
                disable_precompiles, evm.warm_code_addresses, 0)
  IN  IF depth_exceeded(evm)
      THEN Local(Handled([push(cleared, 0) EXCEPT
                   !.gas_left = @ + gas, !.pc = @ + 1]))
      ELSE Enter(cleared, child_message, op, out, gas_before_forward, state)

\* a CALL or CALLCODE that spawns its child whatever the sender holds
call_family_ignores_balance(op, gas, address, value, input, out) ==
  LET evm == Top
      with_value == op \in {"CALL", "CALLCODE"}
      to == IF op \in {"CALL", "STATICCALL"} THEN address
            ELSE evm.message.current_target
      extend_memory == calculate_gas_extend_memory(evm.memory, <<input, out>>)
      warmed == [evm EXCEPT !.accessed_addresses = @ \cup {address},
                            !.warm_code_addresses = @ \cup {address}]
      delegation == access_delegation(warmed, state, address)
      access_gas_cost ==
        (IF address \in evm.accessed_addresses
         THEN GAS_WARM_ACCESS ELSE GAS_COLD_ACCOUNT_ACCESS)
        + (IF address \notin evm.warm_code_addresses
           THEN code_access_cost(get_account(state, address).code) ELSE 0)
        + delegation.access_gas_cost
      create_gas_cost ==
        IF op # "CALL" \/ value = 0 \/ is_account_alive(state, to)
        THEN 0 ELSE GAS_NEW_ACCOUNT
      transfer_gas_cost ==
        IF with_value /\ value # 0 THEN GAS_CALL_VALUE ELSE 0
      extra_gas == access_gas_cost + create_gas_cost + transfer_gas_cost
      message_call_gas ==
        calculate_message_call_gas(IF with_value THEN value ELSE 0, gas,
                                   evm.gas_left, extend_memory.cost, extra_gas)
      cost == message_call_gas.cost + extend_memory.cost
      charged == charge_gas(delegation.evm, cost)
      expanded == expand(charged, extend_memory.expand_by)
      sender_balance ==
        get_account(state, evm.message.current_target).balance
  IN  IF ~CanCharge(delegation.evm, cost)
      THEN Local(Raised(delegation.evm, "OutOfGasError"))
      ELSE IF op = "CALL" /\ evm.message.is_static /\ value # 0
      THEN Local(Raised(charged, "WriteInStaticContext"))
      ELSE generic_call(
             expanded, message_call_gas.sub_call,
             CASE op = "DELEGATECALL" -> evm.message.value
               [] op = "STATICCALL" -> 0
               [] OTHER -> value,
             IF op = "DELEGATECALL" THEN evm.message.caller
             ELSE evm.message.current_target,
             to, delegation.code_address, op # "DELEGATECALL",
             op = "STATICCALL", input, out, delegation.code,
             delegation.disable_precompiles, op,
             evm.gas_left - extra_gas - extend_memory.cost)

\* the handlers call, callcode, delegatecall and staticcall; `address` is
\* the second word they pop
call_family(op, gas, address, value, input, out) ==
  LET evm == Top
      with_value == op \in {"CALL", "CALLCODE"}
      to == IF op \in {"CALL", "STATICCALL"} THEN address
            ELSE evm.message.current_target
      extend_memory == calculate_gas_extend_memory(evm.memory, <<input, out>>)
      warmed == [evm EXCEPT !.accessed_addresses = @ \cup {address},
                            !.warm_code_addresses = @ \cup {address}]
      delegation == access_delegation(warmed, state, address)
      access_gas_cost ==
        (IF address \in evm.accessed_addresses
         THEN GAS_WARM_ACCESS ELSE GAS_COLD_ACCOUNT_ACCESS)
        + (IF address \notin evm.warm_code_addresses
           THEN code_access_cost(get_account(state, address).code) ELSE 0)
        + delegation.access_gas_cost
      create_gas_cost ==
        IF op # "CALL" \/ value = 0 \/ is_account_alive(state, to)
        THEN 0 ELSE GAS_NEW_ACCOUNT
      transfer_gas_cost ==
        IF with_value /\ value # 0 THEN GAS_CALL_VALUE ELSE 0
      extra_gas == access_gas_cost + create_gas_cost + transfer_gas_cost
      message_call_gas ==
        calculate_message_call_gas(IF with_value THEN value ELSE 0, gas,
                                   evm.gas_left, extend_memory.cost, extra_gas)
      cost == message_call_gas.cost + extend_memory.cost
      charged == charge_gas(delegation.evm, cost)
      expanded == expand(charged, extend_memory.expand_by)
      sender_balance ==
        get_account(state, evm.message.current_target).balance
  IN  IF ~CanCharge(delegation.evm, cost)
      THEN Local(Raised(delegation.evm, "OutOfGasError"))
      ELSE IF op = "CALL" /\ evm.message.is_static /\ value # 0
      THEN Local(Raised(charged, "WriteInStaticContext"))
      ELSE IF with_value /\ sender_balance < value
      THEN Local(Handled([refused_call(expanded, message_call_gas) EXCEPT
                   !.pc = @ + 1]))
      ELSE generic_call(
             expanded, message_call_gas.sub_call,
             CASE op = "DELEGATECALL" -> evm.message.value
               [] op = "STATICCALL" -> 0
               [] OTHER -> value,
             IF op = "DELEGATECALL" THEN evm.message.caller
             ELSE evm.message.current_target,
             to, delegation.code_address, op # "DELEGATECALL",
             op = "STATICCALL", input, out, delegation.code,
             delegation.disable_precompiles, op,
             evm.gas_left - extra_gas - extend_memory.cost)

\* operands of the CALL family
GasArgs == {0, 100000}
Targets == {"B"}
Values == {0, 1}
CallWindows == {<<(<<0, 2>>), (<<1, 1>>)>>}

Call ==
  /\ Fetching
  /\ \E gas \in GasArgs, to \in Targets, value \in Values, w \in CallWindows :
       call_family("CALL", gas, to, value, w[1], w[2])

CallCode ==
  /\ Fetching
  /\ \E gas \in GasArgs, to \in Targets, value \in Values, w \in CallWindows :
       call_family("CALLCODE", gas, to, value, w[1], w[2])

DelegateCall ==
  /\ Fetching
  /\ \E gas \in GasArgs, to \in Targets, w \in CallWindows :
       call_family("DELEGATECALL", gas, to, 0, w[1], w[2])

StaticCall ==
  /\ Fetching
  /\ \E gas \in GasArgs, to \in Targets, w \in CallWindows :
       call_family("STATICCALL", gas, to, 0, w[1], w[2])

(***************************************************************************)
(* system.py: CREATE, CREATE2                                              *)
(***************************************************************************)
\* a generic_create that leaves the nonce of the sender on a collision
generic_create_collision_keeps_nonce(evm, endowment, contract_address, memory_start_position, memory_size, op) ==
  LET call_data ==
        memory_read_bytes(evm.memory, memory_start_position, memory_size)
      create_message_gas == max_message_call_gas(evm.gas_left)
      deducted == [evm EXCEPT !.gas_left = @ - create_message_gas,
                              !.return_data = <<>>]
      sender_address == evm.message.current_target
      sender == get_account(state, sender_address)
      warmed ==
        [deducted EXCEPT !.accessed_addresses = @ \cup {contract_address}]
      child_message ==
        Message(sender_address, Empty, contract_address, create_message_gas,
                endowment, <<>>, NoAddress, call_data, evm.message.depth + 1,
                TRUE, FALSE, warmed.accessed_addresses,
                warmed.accessed_storage_keys, FALSE,
                warmed.warm_code_addresses, 0)
  IN  IF Len(call_data) > MAX_INIT_CODE_SIZE
      THEN Local(Raised(evm, "OutOfGasError"))
      ELSE IF evm.message.is_static
      THEN Local(Raised([evm EXCEPT !.gas_left = @ - create_message_gas],
                        "WriteInStaticContext"))
      ELSE IF \/ sender.balance < endowment
              \/ sender.nonce = MAX_NONCE
              \/ depth_exceeded(evm)
      THEN Local(Handled([push(deducted, 0) EXCEPT
                   !.gas_left = @ + create_message_gas, !.pc = @ + 1]))
      ELSE IF \/ account_has_code_or_nonce(state, contract_address)
              \/ account_has_storage(state, contract_address)
      THEN Wrote(Handled([push(warmed, 0) EXCEPT !.pc = @ + 1]),
                 state, transient)
      ELSE Enter(warmed, child_message, op, <<0, 0>>, evm.gas_left,
                 increment_nonce(state, sender_address))

\* a generic_create that does not give the gas of the child back when it
\* refuses
generic_create_refusal_keeps_gas(evm, endowment, contract_address, memory_start_position, memory_size, op) ==
  LET call_data ==
        memory_read_bytes(evm.memory, memory_start_position, memory_size)
      create_message_gas == max_message_call_gas(evm.gas_left)
      deducted == [evm EXCEPT !.gas_left = @ - create_message_gas,
                              !.return_data = <<>>]
      sender_address == evm.message.current_target
      sender == get_account(state, sender_address)
      warmed ==
        [deducted EXCEPT !.accessed_addresses = @ \cup {contract_address}]
      child_message ==
        Message(sender_address, Empty, contract_address, create_message_gas,
                endowment, <<>>, NoAddress, call_data, evm.message.depth + 1,
                TRUE, FALSE, warmed.accessed_addresses,
                warmed.accessed_storage_keys, FALSE,
                warmed.warm_code_addresses, 0)
  IN  IF Len(call_data) > MAX_INIT_CODE_SIZE
      THEN Local(Raised(evm, "OutOfGasError"))
      ELSE IF evm.message.is_static
      THEN Local(Raised([evm EXCEPT !.gas_left = @ - create_message_gas],
                        "WriteInStaticContext"))
      ELSE IF \/ sender.balance < endowment
              \/ sender.nonce = MAX_NONCE
              \/ depth_exceeded(evm)
      THEN Local(Handled([push(deducted, 0) EXCEPT !.pc = @ + 1]))
      ELSE IF \/ account_has_code_or_nonce(state, contract_address)
              \/ account_has_storage(state, contract_address)
      THEN Wrote(Handled([push(warmed, 0) EXCEPT !.pc = @ + 1]),
                 increment_nonce(state, sender_address), transient)
      ELSE Enter(warmed, child_message, op, <<0, 0>>, evm.gas_left,
                 increment_nonce(state, sender_address))

\* a generic_create that gives the gas of the child back on a collision
generic_create_collision_returns_gas(evm, endowment, contract_address, memory_start_position, memory_size, op) ==
  LET call_data ==
        memory_read_bytes(evm.memory, memory_start_position, memory_size)
      create_message_gas == max_message_call_gas(evm.gas_left)
      deducted == [evm EXCEPT !.gas_left = @ - create_message_gas,
                              !.return_data = <<>>]
      sender_address == evm.message.current_target
      sender == get_account(state, sender_address)
      warmed ==
        [deducted EXCEPT !.accessed_addresses = @ \cup {contract_address}]
      child_message ==
        Message(sender_address, Empty, contract_address, create_message_gas,
                endowment, <<>>, NoAddress, call_data, evm.message.depth + 1,
                TRUE, FALSE, warmed.accessed_addresses,
                warmed.accessed_storage_keys, FALSE,
                warmed.warm_code_addresses, 0)
  IN  IF Len(call_data) > MAX_INIT_CODE_SIZE
      THEN Local(Raised(evm, "OutOfGasError"))
      ELSE IF evm.message.is_static
      THEN Local(Raised([evm EXCEPT !.gas_left = @ - create_message_gas],
                        "WriteInStaticContext"))
      ELSE IF \/ sender.balance < endowment
              \/ sender.nonce = MAX_NONCE
              \/ depth_exceeded(evm)
      THEN Local(Handled([push(deducted, 0) EXCEPT
                   !.gas_left = @ + create_message_gas, !.pc = @ + 1]))
      ELSE IF \/ account_has_code_or_nonce(state, contract_address)
              \/ account_has_storage(state, contract_address)
      THEN Wrote(Handled([push(warmed, 0) EXCEPT
                   !.gas_left = @ + create_message_gas, !.pc = @ + 1]),
                 increment_nonce(state, sender_address), transient)
      ELSE Enter(warmed, child_message, op, <<0, 0>>, evm.gas_left,
                 increment_nonce(state, sender_address))

\* generic_create, lines 64-138: up to the call of process_create_message
generic_create(evm, endowment, contract_address, memory_start_position, memory_size, op) ==
  LET call_data ==
        memory_read_bytes(evm.memory, memory_start_position, memory_size)
      create_message_gas == max_message_call_gas(evm.gas_left)
      deducted == [evm EXCEPT !.gas_left = @ - create_message_gas,
                              !.return_data = <<>>]
      sender_address == evm.message.current_target
      sender == get_account(state, sender_address)
      warmed ==
        [deducted EXCEPT !.accessed_addresses = @ \cup {contract_address}]
      child_message ==
        Message(sender_address, Empty, contract_address, create_message_gas,
                endowment, <<>>, NoAddress, call_data, evm.message.depth + 1,
                TRUE, FALSE, warmed.accessed_addresses,
                warmed.accessed_storage_keys, FALSE,
                warmed.warm_code_addresses, 0)
  IN  IF Len(call_data) > MAX_INIT_CODE_SIZE
      THEN Local(Raised(evm, "OutOfGasError"))
      ELSE IF evm.message.is_static
      THEN Local(Raised([evm EXCEPT !.gas_left = @ - create_message_gas],
                        "WriteInStaticContext"))
      ELSE IF \/ sender.balance < endowment
              \/ sender.nonce = MAX_NONCE
              \/ depth_exceeded(evm)
      THEN Local(Handled([push(deducted, 0) EXCEPT
                   !.gas_left = @ + create_message_gas, !.pc = @ + 1]))
      ELSE IF \/ account_has_code_or_nonce(state, contract_address)
              \/ account_has_storage(state, contract_address)
      THEN Wrote(Handled([push(warmed, 0) EXCEPT !.pc = @ + 1]),
                 increment_nonce(state, sender_address), transient)
      ELSE Enter(warmed, child_message, op, <<0, 0>>, evm.gas_left,
                 increment_nonce(state, sender_address))

\* the handlers create and create2; `salt` is the word create2 pops last
create_family(op, endowment, memory_start_position, memory_size, salt) ==
  LET evm == Top
      extend_memory ==
        calculate_gas_extend_memory(
          evm.memory, <<(<<memory_start_position, memory_size>>)>>)
      call_data_words == ceil32(memory_size) \div 32
      init_code_gas == init_code_cost(memory_size)
      cost ==
        GAS_CREATE + extend_memory.cost + init_code_gas
        + (IF op = "CREATE2" THEN GAS_KECCAK256_WORD * call_data_words ELSE 0)
      expanded == expand(charge_gas(evm, cost), extend_memory.expand_by)
      contract_address ==
        IF op = "CREATE"
        THEN compute_contract_address(
               evm.message.current_target,
               get_account(state, evm.message.current_target).nonce)
        ELSE compute_create2_contract_address(
               evm.message.current_target, salt,
               memory_read_bytes(expanded.memory, memory_start_position,
                                 memory_size))
  IN  IF ~CanCharge(evm, cost) THEN Local(Raised(evm, "OutOfGasError"))
      ELSE generic_create(expanded, endowment, contract_address,
                          memory_start_position, memory_size, op)

\* operands of CREATE and CREATE2
Endowments == {0, 1}
InitCodeWindows == {<<0, 2>>}
Salts == {0, 1}

Create ==
  /\ Fetching
  /\ \E endowment \in Endowments, w \in InitCodeWindows :
       create_family("CREATE", endowment, w[1], w[2], 0)

Create2 ==
  /\ Fetching
  /\ \E endowment \in Endowments, w \in InitCodeWindows, salt \in Salts :
       create_family("CREATE2", endowment, w[1], w[2], salt)

(***************************************************************************)
(* osaka/vm/__init__.py: merging a child into its parent                   *)
(***************************************************************************)
\* a merge that puts the logs of the child before those of the parent
incorporate_child_on_success_prepends(evm, child_evm) ==
  [evm EXCEPT
     !.gas_left = @ + child_evm.gas_left,
     !.logs = child_evm.logs \o @,
     !.refund_counter = @ + child_evm.refund_counter,
     !.accounts_to_delete = @ \cup child_evm.accounts_to_delete,
     !.accessed_addresses = @ \cup child_evm.accessed_addresses,
     !.accessed_storage_keys = @ \cup child_evm.accessed_storage_keys,
     !.warm_code_addresses = @ \cup child_evm.warm_code_addresses]

incorporate_child_on_success(evm, child_evm) ==
  [evm EXCEPT
     !.gas_left = @ + child_evm.gas_left,
     !.logs = @ \o child_evm.logs,
     !.refund_counter = @ + child_evm.refund_counter,
     !.accounts_to_delete = @ \cup child_evm.accounts_to_delete,
     !.accessed_addresses = @ \cup child_evm.accessed_addresses,
     !.accessed_storage_keys = @ \cup child_evm.accessed_storage_keys,
     !.warm_code_addresses = @ \cup child_evm.warm_code_addresses]

\* a failed child merged the way a successful one is
incorporate_child_on_error_absorbs(evm, child_evm) ==
  incorporate_child_on_success(evm, child_evm)

incorporate_child_on_error(evm, child_evm) ==
  [evm EXCEPT !.gas_left = @ + child_evm.gas_left]

(***************************************************************************)
(* interpreter.py: leaving a frame                                         *)
(***************************************************************************)
\* a process_message that commits whatever the frame's error
process_message_exit_commit(evm, st, ts, snaps) ==
  [snapshots |-> commit_transaction(snaps), state |-> st, transient |-> ts]

\* process_message, lines 247-253, for the frame execute_code returned
process_message_exit(evm, st, ts, snaps) ==
  IF evm.error # NoError
  THEN rollback_transaction(snaps)
  ELSE [snapshots |-> commit_transaction(snaps), state |-> st,
        transient |-> ts]

\* a deposit that refuses code of exactly MAX_CODE_SIZE bytes
deposit_error_rejects_limit(evm) ==
  LET contract_code == evm.output
      contract_code_gas == Len(contract_code) * GAS_CODE_DEPOSIT
  IN  IF Len(contract_code) > 0 /\ contract_code[1] = 239
      THEN "InvalidContractPrefix"
      ELSE IF ~CanCharge(evm, contract_code_gas) THEN "OutOfGasError"
      ELSE IF Len(contract_code) >= MAX_CODE_SIZE THEN "OutOfGasError"
      ELSE NoError

\* the exception the code deposit raises, lines 199-205
deposit_error(evm) ==
  LET contract_code == evm.output
      contract_code_gas == Len(contract_code) * GAS_CODE_DEPOSIT
  IN  IF Len(contract_code) > 0 /\ contract_code[1] = 239
      THEN "InvalidContractPrefix"
      ELSE IF ~CanCharge(evm, contract_code_gas) THEN "OutOfGasError"
      ELSE IF Len(contract_code) > MAX_CODE_SIZE THEN "OutOfGasError"
      ELSE NoError

\* a process_create_message that commits its snapshot when the init code
\* failed
process_create_message_exit_commits(evm, pm) ==
  LET rolled == rollback_transaction(pm.snapshots)
      deposit == Len(evm.output) * GAS_CODE_DEPOSIT
  IN  IF evm.error # NoError
      THEN [evm |-> evm, state |-> pm.state, transient |-> pm.transient,
            snapshots |-> commit_transaction(pm.snapshots)]
      ELSE IF deposit_error(evm) # NoError
      THEN [evm |-> [evm EXCEPT !.gas_left = 0, !.output = <<>>,
                                !.error = deposit_error(evm)],
            state |-> rolled.state, transient |-> rolled.transient,
            snapshots |-> rolled.snapshots]
      ELSE [evm |-> charge_gas(evm, deposit),
            state |-> set_code(pm.state, evm.message.current_target,
                               evm.output),
            transient |-> pm.transient,
            snapshots |-> commit_transaction(pm.snapshots)]

\* a process_create_message that returns from a failed code deposit with
\* its snapshot open
process_create_message_exit_leaks(evm, pm) ==
  LET rolled == rollback_transaction(pm.snapshots)
      deposit == Len(evm.output) * GAS_CODE_DEPOSIT
  IN  IF evm.error # NoError
      THEN [evm |-> evm, state |-> rolled.state,
            transient |-> rolled.transient, snapshots |-> rolled.snapshots]
      ELSE IF deposit_error(evm) # NoError
      THEN [evm |-> [evm EXCEPT !.gas_left = 0, !.output = <<>>,
                                !.error = deposit_error(evm)],
            state |-> rolled.state, transient |-> rolled.transient,
            snapshots |-> pm.snapshots]
      ELSE [evm |-> charge_gas(evm, deposit),
            state |-> set_code(pm.state, evm.message.current_target,
                               evm.output),
            transient |-> pm.transient,
            snapshots |-> commit_transaction(pm.snapshots)]

\* process_create_message, lines 196-216; pm is what process_message left
process_create_message_exit(evm, pm) ==
  LET rolled == rollback_transaction(pm.snapshots)
      deposit == Len(evm.output) * GAS_CODE_DEPOSIT
  IN  IF evm.error # NoError
      THEN [evm |-> evm, state |-> rolled.state,
            transient |-> rolled.transient, snapshots |-> rolled.snapshots]
      ELSE IF deposit_error(evm) # NoError
      THEN [evm |-> [evm EXCEPT !.gas_left = 0, !.output = <<>>,
                                !.error = deposit_error(evm)],
            state |-> rolled.state, transient |-> rolled.transient,
            snapshots |-> rolled.snapshots]
      ELSE [evm |-> charge_gas(evm, deposit),
            state |-> set_code(pm.state, evm.message.current_target,
                               evm.output),
            transient |-> pm.transient,
            snapshots |-> commit_transaction(pm.snapshots)]

\* a generic_call that writes the output at the start of memory
call_return_writes_at_start(evm, child_evm, out) ==
  LET merged ==
        IF child_evm.error # NoError
        THEN push([incorporate_child_on_error(evm, child_evm) EXCEPT
                     !.return_data = child_evm.output], 0)
        ELSE push([incorporate_child_on_success(evm, child_evm) EXCEPT
                     !.return_data = child_evm.output], 1)
      actual_output_size == Min(out[2], Len(child_evm.output))
  IN  [merged EXCEPT
         !.memory = memory_write(@, 0,
                      SubSeq(child_evm.output, 1, actual_output_size)),
         !.pc = @ + 1]

\* generic_call, lines 332-346, and the pc += 1 of the handler
call_return(evm, child_evm, out) ==
  LET merged ==
        IF child_evm.error # NoError
        THEN push([incorporate_child_on_error(evm, child_evm) EXCEPT
                     !.return_data = child_evm.output], 0)
        ELSE push([incorporate_child_on_success(evm, child_evm) EXCEPT
                     !.return_data = child_evm.output], 1)
      actual_output_size == Min(out[2], Len(child_evm.output))
  IN  [merged EXCEPT
         !.memory = memory_write(@, out[1],
                      SubSeq(child_evm.output, 1, actual_output_size)),
         !.pc = @ + 1]

\* a generic_create that forgets the output of a failed child
create_return_drops_output(evm, child_evm) ==
  LET merged ==
        IF child_evm.error # NoError
        THEN push([incorporate_child_on_error(evm, child_evm) EXCEPT
                     !.return_data = <<>>], 0)
        ELSE push([incorporate_child_on_success(evm, child_evm) EXCEPT
                     !.return_data = <<>>],
                  AddressWord(child_evm.message.current_target))
  IN  [merged EXCEPT !.pc = @ + 1]

\* a generic_create that returns no gas from a failed child
create_return_keeps_gas(evm, child_evm) ==
  LET merged ==
        IF child_evm.error # NoError
        THEN push([evm EXCEPT !.return_data = child_evm.output], 0)
        ELSE push([incorporate_child_on_success(evm, child_evm) EXCEPT
                     !.return_data = <<>>],
                  AddressWord(child_evm.message.current_target))
  IN  [merged EXCEPT !.pc = @ + 1]

\* generic_create, lines 141-148, and the pc += 1 of the handler
create_return(evm, child_evm) ==
  LET merged ==
        IF child_evm.error # NoError
        THEN push([incorporate_child_on_error(evm, child_evm) EXCEPT
                     !.return_data = child_evm.output], 0)
        ELSE push([incorporate_child_on_success(evm, child_evm) EXCEPT
                     !.return_data = <<>>],
                  AddressWord(child_evm.message.current_target))
  IN  [merged EXCEPT !.pc = @ + 1]

\* an output that counts the refunds of the frame whatever its error
MessageCallOutput_refunds(msg, evm) ==
  [valid |-> TRUE,
   gas_left |-> evm.gas_left,
   refund_counter |->
     (IF msg.target # Empty /\ msg.authorizations # 0
      THEN set_delegation(msg) ELSE 0)
     + evm.refund_counter,
   logs |-> IF evm.error # NoError THEN <<>> ELSE evm.logs,
   accounts_to_delete |->
     IF evm.error # NoError THEN {} ELSE evm.accounts_to_delete,
   error |-> evm.error,
   return_data |-> evm.output]

\* an output that keeps the accounts to delete of a failed frame
MessageCallOutput_keeps_deletions(msg, evm) ==
  [valid |-> TRUE,
   gas_left |-> evm.gas_left,
   refund_counter |->
     (IF msg.target # Empty /\ msg.authorizations # 0
      THEN set_delegation(msg) ELSE 0)
     + (IF evm.error # NoError THEN 0 ELSE evm.refund_counter),
   logs |-> IF evm.error # NoError THEN <<>> ELSE evm.logs,
   accounts_to_delete |-> evm.accounts_to_delete,
   error |-> evm.error,
   return_data |-> evm.output]

\* process_message_call, lines 137-157
MessageCallOutput(msg, evm) ==
  [valid |-> TRUE,
   gas_left |-> evm.gas_left,
   refund_counter |->
     (IF msg.target # Empty /\ msg.authorizations # 0
      THEN set_delegation(msg) ELSE 0)
     + (IF evm.error # NoError THEN 0 ELSE evm.refund_counter),
   logs |-> IF evm.error # NoError THEN <<>> ELSE evm.logs,
   accounts_to_delete |->
     IF evm.error # NoError THEN {} ELSE evm.accounts_to_delete,
   error |-> evm.error,
   return_data |-> evm.output]

\* execute_code has returned the innermost frame: process_message and, for
\* a create message, process_create_message finish; then the handler that
\* spawned the frame merges it, or process_message_call builds its output
Unwind ==
  /\ phase = "running"
  /\ Top.done
  /\ LET pm == process_message_exit(Top, state, transient, snapshots)
         left == IF Top.message.target = Empty
                 THEN process_create_message_exit(Top, pm)
                 ELSE [evm |-> Top, state |-> pm.state,
                       transient |-> pm.transient,
                       snapshots |-> pm.snapshots]
         child_evm == left.evm
         family == {child_evm.id} \cup child_evm.children
         parent == frames[Len(frames) - 1]
         merged ==
           IF child_evm.message.target = Empty
           THEN create_return(parent, child_evm)
           ELSE call_return(parent, child_evm, child_evm.out)
         resumed == [merged EXCEPT !.children = @ \cup family]
     IN  /\ state' = left.state
         /\ transient' = left.transient
         /\ snapshots' = left.snapshots
         /\ failed' = IF child_evm.error # NoError
                      THEN failed \cup family ELSE failed
         /\ IF Len(frames) = 1
            THEN /\ frames' = <<>>
                 /\ IF child_evm.error = NoError
                       /\ child_evm.refund_counter < 0
                    THEN \* U256 of a negative number raises
                         /\ phase' = "raised"
                         /\ result' = result
                    ELSE /\ phase' = "done"
                         /\ result' = MessageCallOutput(message, child_evm)
                 /\ last' = [valid |-> TRUE, top |-> TRUE,
                             child |-> child_evm, parent |-> child_evm,
                             end_state |-> state,
                             end_transient |-> transient,
                             pm_state |-> pm.state,
                             pm_transient |-> pm.transient,
                             pm_error |-> Top.error,
                             state |-> left.state]
            ELSE /\ frames' =
                      [i \in 1..(Len(frames) - 1) |->
                         IF i = Len(frames) - 1 THEN resumed ELSE frames[i]]
                 /\ last' = [valid |-> TRUE, top |-> FALSE,
                             child |-> child_evm, parent |-> resumed,
                             end_state |-> state,
                             end_transient |-> transient,
                             pm_state |-> pm.state,
                             pm_transient |-> pm.transient,
                             pm_error |-> Top.error,
                             state |-> left.state]
                 /\ UNCHANGED <<phase, result>>
         /\ UNCHANGED <<created_accounts, message, steps, nframes, emitted>>

(***************************************************************************)
(* environment.py: ADDRESS, CALLER, CALLVALUE, BALANCE, EXTCODESIZE,       *)
(* EXTCODEHASH, EXTCODECOPY                                                *)
(***************************************************************************)
\* an opcode that charges GAS_BASE and pushes one word
pushes(evm, word) ==
  IF ~CanCharge(evm, GAS_BASE) THEN Raised(evm, "OutOfGasError")
  ELSE Handled([push(charge_gas(evm, GAS_BASE), word) EXCEPT !.pc = @ + 1])

address(evm) == pushes(evm, AddressWord(evm.message.current_target))

caller(evm) == pushes(evm, AddressWord(evm.message.caller))

\* a CALLVALUE that costs nothing
callvalue_free(evm) ==
  Handled([push(evm, evm.message.value) EXCEPT !.pc = @ + 1])

callvalue(evm) == pushes(evm, evm.message.value)

AddressOp ==
  /\ Fetching
  /\ Local(address(Top))

Caller ==
  /\ Fetching
  /\ Local(caller(Top))

CallValue ==
  /\ Fetching
  /\ Local(callvalue(Top))

\* the word keccak256 gives for a code: the hash is not modelled, codes of
\* up to three small bytes get different words
RECURSIVE keccak256(_)
keccak256(bytes) ==
  IF bytes = <<>> THEN 1 ELSE (keccak256(Tail(bytes)) * 257 + Head(bytes) + 2)

\* lines 81-85, 344-352, 480-486: the address is made warm, then the fee
\* of the access is charged and the word pushed
accesses(evm, target, word) ==
  LET access_gas_cost ==
        IF target \in evm.accessed_addresses
        THEN GAS_WARM_ACCESS ELSE GAS_COLD_ACCOUNT_ACCESS
      warmed == [evm EXCEPT !.accessed_addresses = @ \cup {target}]
  IN  IF ~CanCharge(warmed, access_gas_cost)
      THEN Raised(warmed, "OutOfGasError")
      ELSE Handled([push(charge_gas(warmed, access_gas_cost), word) EXCEPT
             !.pc = @ + 1])

\* a BALANCE that charges the cold fee for every access
balance_always_cold(evm, st, target) ==
  LET warmed == [evm EXCEPT !.accessed_addresses = @ \cup {target}]
  IN  IF ~CanCharge(warmed, GAS_COLD_ACCOUNT_ACCESS)
      THEN Raised(warmed, "OutOfGasError")
      ELSE Handled([push(charge_gas(warmed, GAS_COLD_ACCOUNT_ACCESS),
                         get_account(st, target).balance) EXCEPT
             !.pc = @ + 1])

balance(evm, st, target) ==
  accesses(evm, target, get_account(st, target).balance)

extcodesize(evm, st, target) ==
  accesses(evm, target, Len(get_account(st, target).code))

extcodehash(evm, st, target) ==
  LET account == get_account(st, target)
  IN  accesses(evm, target,
               IF /\ account.nonce = 0
                  /\ account.balance = 0
                  /\ account.code = <<>>
               THEN 0 ELSE keccak256(account.code))

\* an EXTCODECOPY that charges the code-access cost at every access
extcodecopy_charges_code_always(evm, st, target, memory_start_index, code_start_index, size) ==
  LET words == ceil32(size) \div 32
      copy_gas_cost == GAS_COPY * words
      extend_memory ==
        calculate_gas_extend_memory(
          evm.memory, <<(<<memory_start_index, size>>)>>)
      access_gas_cost ==
        (IF target \in evm.accessed_addresses
         THEN GAS_WARM_ACCESS ELSE GAS_COLD_ACCOUNT_ACCESS)
        + code_access_cost(get_account(st, target).code)
      warmed == [evm EXCEPT !.accessed_addresses = @ \cup {target},
                            !.warm_code_addresses = @ \cup {target}]
      cost == access_gas_cost + copy_gas_cost + extend_memory.cost
      expanded == expand(charge_gas(warmed, cost), extend_memory.expand_by)
      value == buffer_read(get_account(st, target).code, code_start_index,
                           size)
  IN  IF ~CanCharge(warmed, cost)
      THEN Raised(warmed, "OutOfGasError")
      ELSE Handled([expanded EXCEPT
             !.memory = memory_write(@, memory_start_index, value),
             !.pc = @ + 1])

\* an EXTCODECOPY that charges GAS_VERY_LOW as the other copies do
extcodecopy_charges_very_low(evm, st, target, memory_start_index, code_start_index, size) ==
  LET words == ceil32(size) \div 32
      copy_gas_cost == GAS_COPY * words
      extend_memory ==
        calculate_gas_extend_memory(
          evm.memory, <<(<<memory_start_index, size>>)>>)
      access_gas_cost ==
        (IF target \in evm.accessed_addresses
         THEN GAS_WARM_ACCESS ELSE GAS_COLD_ACCOUNT_ACCESS)
        + (IF target \notin evm.warm_code_addresses
           THEN code_access_cost(get_account(st, target).code) ELSE 0)
      warmed == [evm EXCEPT !.accessed_addresses = @ \cup {target},
                            !.warm_code_addresses = @ \cup {target}]
      cost == GAS_VERY_LOW + access_gas_cost + copy_gas_cost
              + extend_memory.cost
      expanded == expand(charge_gas(warmed, cost), extend_memory.expand_by)
      value == buffer_read(get_account(st, target).code, code_start_index,
                           size)
  IN  IF ~CanCharge(warmed, cost)
      THEN Raised(warmed, "OutOfGasError")
      ELSE Handled([expanded EXCEPT
             !.memory = memory_write(@, memory_start_index, value),
             !.pc = @ + 1])

\* lines 364-409
extcodecopy(evm, st, target, memory_start_index, code_start_index, size) ==
  LET words == ceil32(size) \div 32
      copy_gas_cost == GAS_COPY * words
      extend_memory ==
        calculate_gas_extend_memory(
          evm.memory, <<(<<memory_start_index, size>>)>>)
      access_gas_cost ==
        (IF target \in evm.accessed_addresses
         THEN GAS_WARM_ACCESS ELSE GAS_COLD_ACCOUNT_ACCESS)
        + (IF target \notin evm.warm_code_addresses
           THEN code_access_cost(get_account(st, target).code) ELSE 0)
      warmed == [evm EXCEPT !.accessed_addresses = @ \cup {target},
                            !.warm_code_addresses = @ \cup {target}]
      cost == access_gas_cost + copy_gas_cost + extend_memory.cost
      expanded == expand(charge_gas(warmed, cost), extend_memory.expand_by)
      value == buffer_read(get_account(st, target).code, code_start_index,
                           size)
  IN  IF ~CanCharge(warmed, cost)
      THEN Raised(warmed, "OutOfGasError")
      ELSE Handled([expanded EXCEPT
             !.memory = memory_write(@, memory_start_index, value),
             !.pc = @ + 1])

\* the addresses BALANCE and the EXTCODE opcodes are given
AccessTargets == {"B", "N"}

Balance ==
  /\ Fetching
  /\ \E target \in AccessTargets : Local(balance(Top, state, target))

ExtCodeSize ==
  /\ Fetching
  /\ \E target \in AccessTargets : Local(extcodesize(Top, state, target))

ExtCodeHash ==
  /\ Fetching
  /\ \E target \in AccessTargets : Local(extcodehash(Top, state, target))

ExtCodeCopy ==
  /\ Fetching
  /\ \E target \in AccessTargets :
       Local(extcodecopy(Top, state, target, 0, 0, 2))

\* a RETURNDATACOPY that pads with zeros what the buffer does not hold
returndatacopy_pads(evm, memory_start_index, return_data_start_position, size) ==
  LET words == ceil32(size) \div 32
      copy_gas_cost == GAS_RETURN_DATA_COPY * words
      extend_memory ==
        calculate_gas_extend_memory(
          evm.memory, <<(<<memory_start_index, size>>)>>)
      cost == GAS_VERY_LOW + copy_gas_cost + extend_memory.cost
      expanded == expand(charge_gas(evm, cost), extend_memory.expand_by)
      value == buffer_read(evm.return_data, return_data_start_position, size)
  IN  IF ~CanCharge(evm, cost) THEN Raised(evm, "OutOfGasError")
      ELSE Handled([expanded EXCEPT
             !.memory = memory_write(@, memory_start_index, value),
             !.pc = @ + 1])

\* lines 434-465
returndatacopy(evm, memory_start_index, return_data_start_position, size) ==
  LET words == ceil32(size) \div 32
      copy_gas_cost == GAS_RETURN_DATA_COPY * words
      extend_memory ==
        calculate_gas_extend_memory(
          evm.memory, <<(<<memory_start_index, size>>)>>)
      cost == GAS_VERY_LOW + copy_gas_cost + extend_memory.cost
      charged == charge_gas(evm, cost)
      expanded == expand(charged, extend_memory.expand_by)
      value == SubSeq(evm.return_data, return_data_start_position + 1,
                      return_data_start_position + size)
  IN  IF ~CanCharge(evm, cost) THEN Raised(evm, "OutOfGasError")
      ELSE IF return_data_start_position + size > Len(evm.return_data)
      THEN Raised(charged, "OutOfBoundsRead")
      ELSE Handled([expanded EXCEPT
             !.memory = memory_write(@, memory_start_index, value),
             !.pc = @ + 1])

\* operands of RETURNDATACOPY: (memory_start_index,
\* return_data_start_position, size)
ReturnDataWindows == {<<0, 0, 0>>, <<0, 0, 2>>, <<3, 1, 1>>, <<0, 1, 2>>, <<0, 3, 0>>}

ReturnDataCopy ==
  /\ Fetching
  /\ \E w \in ReturnDataWindows :
       Local(returndatacopy(Top, w[1], w[2], w[3]))

(***************************************************************************)
(* interpreter.py: process_message_call, lines 107-135                     *)
(***************************************************************************)
\* lines 114-121: the output of a create message whose target is taken
AddressCollisionOutput ==
  [valid |-> TRUE, gas_left |-> 0, refund_counter |-> 0, logs |-> <<>>,
   accounts_to_delete |-> {}, error |-> "AddressCollision",
   return_data |-> <<>>]

ProcessMessageCall ==
  /\ phase = "start"
  /\ LET is_create == message.target = Empty
         resolved == IF is_create THEN message
                     ELSE resolve_delegation(message, state)
         outer == IF is_create
                  THEN process_create_message_entry(message, state, transient,
                                                    snapshots)
                  ELSE [snapshots |-> snapshots, state |-> state,
                        created_accounts |-> created_accounts]
         entered == process_message_entry(resolved, outer.state, transient,
                                          outer.snapshots)
         pre == [state |-> outer.state, transient |-> transient]
         spawn == [NoSpawn EXCEPT !.state = state, !.before = state]
     IN  IF is_create /\ is_collision(state, message.current_target)
         THEN /\ phase' = "done"
              /\ result' = AddressCollisionOutput
              /\ UNCHANGED <<state, transient, snapshots, created_accounts,
                             message, frames, last, steps, nframes, emitted,
                             failed>>
         ELSE IF depth_limit_reached(message)
         THEN \* line 236: raised to the caller of process_message_call
              /\ phase' = "raised"
              /\ state' = outer.state
              /\ snapshots' = outer.snapshots
              /\ created_accounts' = outer.created_accounts
              /\ UNCHANGED <<transient, message, frames, result, last, steps,
                             nframes, emitted, failed>>
         ELSE /\ phase' = "running"
              /\ frames' = <<precompile_dispatch(
                               Evm(resolved, 1, "TOP", <<0, 0>>, spawn,
                                   pre))>>
              /\ nframes' = 1
              /\ state' = entered.state
              /\ snapshots' = entered.snapshots
              /\ created_accounts' = outer.created_accounts
              /\ UNCHANGED <<transient, message, result, last, steps,
                             emitted, failed>>

Next ==
  \/ ProcessMessageCall
  \/ CodeEnd
  \/ InvalidOp
  \/ Return
  \/ RevertOp
  \/ CallDataCopy
  \/ Log
  \/ SStore
  \/ TStore
  \/ SelfDestruct
  \/ Call
  \/ CallCode
  \/ DelegateCall
  \/ StaticCall
  \/ Create
  \/ Create2
  \/ Unwind

Spec == Init /\ [][Next]_vars

\* the engine on creation transactions: the init code copies itself, writes
\* storage and returns the code to deploy
NextCreate ==
  \/ ProcessMessageCall
  \/ CodeEnd
  \/ InvalidOp
  \/ CodeCopy
  \/ Return
  \/ ReturnLarge
  \/ RevertOp
  \/ SStore
  \/ TStore
  \/ Unwind

SpecCreate == InitCreate /\ [][NextCreate]_vars

\* the engine on programs that read their context and other accounts and
\* call
NextEnv ==
  \/ ProcessMessageCall
  \/ CodeEnd
  \/ InvalidOp
  \/ AddressOp
  \/ Caller
  \/ CallValue
  \/ Balance
  \/ ExtCodeSize
  \/ ExtCodeHash
  \/ ExtCodeCopy
  \/ Call
  \/ CallCode
  \/ DelegateCall
  \/ StaticCall
  \/ Unwind

SpecEnv == Init /\ [][NextEnv]_vars

\* the code of an account that delegates to the precompile
DelegationToPrecompile == EOA_DELEGATION_MARKER \o AddressBytes("P")

\* B is a contract or an account that delegates to the precompile P, whose
\* address may hold code of its own
PrecompileStates ==
  {InitialState,
   [InitialState EXCEPT !["B"].code = DelegationToPrecompile],
   [InitialState EXCEPT !["B"].code = DelegationToPrecompile,
                        !["P"].code = <<91>>]}

\* S calls A, or S calls B
InitPre ==
  /\ state \in PrecompileStates
  /\ transient = [a \in Address |-> 0]
  /\ snapshots = <<>>
  /\ created_accounts = {}
  /\ message \in
       {Message("S", t, t, TopGas, 1, TopData, t, state[t].code, 0, TRUE,
                FALSE, {"S", t}, {}, FALSE, {}, 1) : t \in {"A", "B"}}
  /\ frames = <<>>
  /\ phase = "start"
  /\ result = NoResult
  /\ last = NoLast
  /\ steps = 0
  /\ nframes = 0
  /\ emitted = <<>>
  /\ failed = {}

\* CALL to the address of the precompile
CallPrecompile ==
  /\ Fetching
  /\ \E gas \in GasArgs, value \in Values, w \in CallWindows :
       call_family("CALL", gas, "P", value, w[1], w[2])

\* the engine on programs that call a precompile, or an account that
\* delegates to it, and read what it returned
NextPre ==
  \/ ProcessMessageCall
  \/ CodeEnd
  \/ InvalidOp
  \/ CallDataCopy
  \/ Return
  \/ ReturnLarge
  \/ RevertOp
  \/ Call
  \/ CallPrecompile
  \/ Create
  \/ ReturnDataCopy
  \/ Unwind

SpecPre == InitPre /\ [][NextPre]_vars

\* A may have used its last nonce
NonceStates ==
  {InitialState, [InitialState EXCEPT !["A"].nonce = MAX_NONCE]}

InitNonce ==
  /\ state \in NonceStates
  /\ transient = [a \in Address |-> 0]
  /\ snapshots = <<>>
  /\ created_accounts = {}
  /\ message \in TopMessages
  /\ frames = <<>>
  /\ phase = "start"
  /\ result = NoResult
  /\ last = NoLast
  /\ steps = 0
  /\ nframes = 0
  /\ emitted = <<>>
  /\ failed = {}

\* the engine on programs that create contracts, from frames that may not
\* be able to
NextNested ==
  \/ ProcessMessageCall
  \/ CodeEnd
  \/ InvalidOp
  \/ CodeCopy
  \/ Return
  \/ ReturnLarge
  \/ RevertOp
  \/ Call
  \/ StaticCall
  \/ Create
  \/ Create2
  \/ Unwind

SpecNested == InitNonce /\ [][NextNested]_vars

\* the gas of a message that pays for two cheap opcodes only
SmallGas == 5

\* the messages of Init, and the same messages with little gas
InitLive ==
  /\ state = InitialState
  /\ transient = [a \in Address |-> 0]
  /\ snapshots = <<>>
  /\ created_accounts = {}
  /\ message \in {[m EXCEPT !.gas = g] :
                    m \in TopMessages, g \in {SmallGas, TopGas}}
  /\ frames = <<>>
  /\ phase = "start"
  /\ result = NoResult
  /\ last = NoLast
  /\ steps = 0
  /\ nframes = 0
  /\ emitted = <<>>
  /\ failed = {}

NextLive ==
  \/ ProcessMessageCall
  \/ CodeEnd
  \/ InvalidOp
  \/ CallValue
  \/ Return
  \/ RevertOp
  \/ Call
  \/ Create
  \/ Unwind

\* process_message_call is one sequential computation: whenever it has a
\* next step it takes one
SpecLive == InitLive /\ [][NextLive]_vars /\ WF_vars(NextLive)

(***************************************************************************)
(* interpreter.py, process_message_call, lines 134-157: the conversion of  *)
(* the top-level frame's refund counter, as a function of the counter.     *)
(* Under Spec a top-level frame that succeeds never carries a negative     *)
(* counter (a negative entry of SSTORE follows the positive entry of the   *)
(* clearing it undoes), so the counter is drawn here from the range a      *)
(* frame's counter takes.                                                  *)
(***************************************************************************)
\* execute_code is running the top-level frame, whose signed refund counter
\* is what an SSTORE takes back, nothing, or what an SSTORE grants
InitOutput ==
  \E m \in {t \in TopMessages : ~depth_limit_reached(t)},
     r \in {0 - REFUND_STORAGE_CLEAR, 0, REFUND_STORAGE_CLEAR} :
    LET resolved == resolve_delegation(m, InitialState)
        entered == process_message_entry(resolved, InitialState,
                                         [a \in Address |-> 0], <<>>)
        pre == [state |-> InitialState, transient |-> [a \in Address |-> 0]]
        spawn == [NoSpawn EXCEPT !.state = InitialState,
                                 !.before = InitialState]
        evm == precompile_dispatch(
                 Evm(resolved, 1, "TOP", <<0, 0>>, spawn, pre))
    IN  /\ state = entered.state
        /\ transient = [a \in Address |-> 0]
        /\ snapshots = entered.snapshots
        /\ created_accounts = {}
        /\ message = m
        /\ frames = <<[evm EXCEPT !.refund_counter = r]>>
        /\ phase = "running"
        /\ result = NoResult
        /\ last = NoLast
        /\ steps = 0
        /\ nframes = 1
        /\ emitted = <<>>
        /\ failed = {}

NextOutput ==
  \/ CodeEnd
  \/ InvalidOp
  \/ CallValue
  \/ Return
  \/ RevertOp
  \/ Unwind

SpecOutput == InitOutput /\ [][NextOutput]_vars

(***************************************************************************)
(* environment.py: the four copy opcodes on windows of several sizes       *)
(***************************************************************************)
\* operands of the copy opcodes: (memory_start_index, start index in the
\* source, size), of no, one and two words
CopyWindows == {<<0, 0, 0>>, <<0, 0, 2>>, <<0, 1, 33>>}

CallDataCopyAt ==
  /\ Fetching
  /\ \E w \in CopyWindows : Local(calldatacopy(Top, w[1], w[2], w[3]))

CodeCopyAt ==
  /\ Fetching
  /\ \E w \in CopyWindows : Local(codecopy(Top, w[1], w[2], w[3]))

ExtCodeCopyAt ==
  /\ Fetching
  /\ \E target \in AccessTargets, w \in CopyWindows :
       Local(extcodecopy(Top, state, target, w[1], w[2], w[3]))

\* the engine on programs that copy calldata, code, the code of another
\* account and what a call to the precompile returned
NextCopy ==
  \/ ProcessMessageCall
  \/ CodeEnd
  \/ CallDataCopyAt
  \/ CodeCopyAt
  \/ ExtCodeCopyAt
  \/ CallPrecompile
  \/ ReturnDataCopy
  \/ Unwind

SpecCopy == Init /\ [][NextCopy]_vars

(***************************************************************************)
(* Properties                                                              *)
(***************************************************************************)
\* more than any CALL-family or CREATE opcode of the model charges
\* besides the gas it sets aside for the child
OpcodeFeeBound ==
  GAS_CREATE + GAS_COLD_ACCOUNT_ACCESS + GAS_CALL_VALUE + GAS_NEW_ACCOUNT

\* every frame of the call stack, and the frame that returned last
AllFrames ==
  {frames[i] : i \in 1..Len(frames)}
  \cup (IF last.valid THEN {last.child} ELSE {})

\* C1: when a frame has ended in an exceptional halt and process_message
\* has returned, the world-state and the transient storage are what they
\* were just before process_message took the frame's snapshot.
C1_HaltRestoresState ==
  (last.valid /\ last.pm_error \in ExceptionalHalt)
    => /\ last.pm_state = last.child.pre.state
       /\ last.pm_transient = last.child.pre.transient

\* a halted frame that had received value, had written transient storage
\* or had a descendant, and whose state differed from the restored one
C1_Witness ==
  /\ last.valid
  /\ last.pm_error \in ExceptionalHalt
  /\ last.child.message.should_transfer_value
  /\ last.child.message.value # 0
  /\ last.child.children # {}
  /\ last.end_state # last.pm_state
  /\ last.end_transient # last.pm_transient

\* C2: a frame whose handler raised an ExceptionalHalt is returned by
\* execute_code with gas_left = 0, empty output and the halt as its error.
C2_HaltZeroesGas ==
  \A i \in 1..Len(frames) :
    (frames[i].done /\ frames[i].error \in ExceptionalHalt)
      => /\ frames[i].gas_left = 0
         /\ frames[i].output = <<>>

\* a frame that was given gas, ran an opcode that grew its memory, and
\* then halted in a write under a static call
C2_Witness ==
  /\ Len(frames) > 1
  /\ Top.done
  /\ Top.error = "WriteInStaticContext"
  /\ Top.message.gas > 0
  /\ Top.memory # <<>>

\* the step of a REVERT with operands w = (offset, size)
RevertStep(w) ==
  /\ phase = "running"
  /\ ~Top.done
  /\ Len(frames') = Len(frames)
  /\ frames'[Len(frames)].error = Revert
  /\ frames'[Len(frames)].output =
       memory_read_bytes(frames'[Len(frames)].memory, w[1], w[2])
  /\ frames'[Len(frames)].gas_left =
       Top.gas_left
       - calculate_gas_extend_memory(Top.memory, <<w>>).cost

\* C3: REVERT(off, size) ends the frame with error Revert, output
\* memory[off..off+size] and the gas it had less the memory-expansion
\* cost only; process_message still rolls the frame's snapshot back.
C3_RevertKeepsGasAndOutput ==
  /\ [][(/\ phase = "running"
         /\ Len(frames') = Len(frames)
         /\ ~Top.done
         /\ frames'[Len(frames)].error = Revert)
          => /\ frames'[Len(frames)].done
             /\ \E w \in OutputWindows : RevertStep(w)]_vars
  /\ []((last.valid /\ last.pm_error = Revert)
          => /\ last.pm_state = last.child.pre.state
             /\ last.pm_transient = last.child.pre.transient)

\* a frame that reverted with the calldata it had copied as its output
\* and gas left, rolled back by process_message
C3_Witness ==
  /\ last.valid
  /\ last.pm_error = Revert
  /\ last.child.output = TopData
  /\ last.child.gas_left > 0
  /\ last.end_state # last.pm_state

\* C4: when a spawned child ends with an error, the parent's logs,
\* refund_counter, accounts_to_delete and access sets are what they were
\* when it spawned the child, and its gas grows by the child's gas_left.
C4_FailedChildLeavesParent ==
  (last.valid /\ ~last.top /\ last.child.error # NoError)
    => /\ last.parent.logs = last.child.spawn.logs
       /\ last.parent.refund_counter = last.child.spawn.refund_counter
       /\ last.parent.accounts_to_delete = last.child.spawn.accounts_to_delete
       /\ last.parent.accessed_addresses = last.child.spawn.accessed_addresses
       /\ last.parent.accessed_storage_keys =
            last.child.spawn.accessed_storage_keys
       /\ last.parent.warm_code_addresses =
            last.child.spawn.warm_code_addresses
       /\ last.parent.gas_left =
            last.child.spawn.gas_left + last.child.gas_left

\* a failed child that had earned a refund and warmed a storage key
C4_Witness ==
  /\ last.valid
  /\ ~last.top
  /\ last.child.error # NoError
  /\ last.child.refund_counter # 0
  /\ last.child.accessed_storage_keys # last.child.spawn.accessed_storage_keys

\* C5: the gas_left of a frame never exceeds the gas of its message.
C5_GasLeftBounded ==
  \A evm \in AllFrames : evm.gas_left <= evm.message.gas

\* a frame whose first opcode was a CALL or CALLCODE refused for lack of
\* balance: 0 pushed, no child, the code address warmed
C5_Witness ==
  /\ Len(frames) = 2
  /\ ~Top.done
  /\ Top.pc = 1
  /\ Top.stack = <<0>>
  /\ Top.children = {}
  /\ Top.warm_code_addresses # Top.message.warm_code_addresses
  /\ Top.gas_left > 0

\* the gas the child was given beyond what its parent paid for it: the
\* stipend of a CALL or CALLCODE that carries value
StipendOf(child_evm) ==
  IF child_evm.op \in {"CALL", "CALLCODE"} /\ child_evm.message.value # 0
  THEN GAS_CALL_STIPEND ELSE 0

\* C6 as stated: after the merge the parent has the gas it had before
\* the spawn, less the gas of the child's message, plus the child's
\* final gas_left.
C6_AsStated ==
  (last.valid /\ ~last.top)
    => last.parent.gas_left =
         last.child.spawn.gas_before_forward - last.child.message.gas
         + last.child.gas_left

\* C6: after the merge the parent has the gas it had before the spawn,
\* less the gas of the child's message without the stipend a CALL or
\* CALLCODE with value adds to it, plus the child's final gas_left.
C6_GasAfterMerge ==
  (last.valid /\ ~last.top)
    => last.parent.gas_left =
         last.child.spawn.gas_before_forward
         - (last.child.message.gas - StipendOf(last.child))
         + last.child.gas_left

\* a failed create child that gave gas back to its parent
C6_Witness ==
  /\ last.valid
  /\ ~last.top
  /\ last.child.message.target = Empty
  /\ last.child.error = Revert
  /\ last.child.gas_left > 0
  /\ last.parent.gas_left > last.child.spawn.gas_left

\* C7: snapshots nest.  When a child has failed, the state is the one its
\* parent's handler left when it spawned the child (the nonce increment
\* of CREATE included) and the snapshots of the frames below are open;
\* when a frame has failed, the state is the one before its snapshot,
\* whatever its children had committed.
C7_SnapshotsNest ==
  /\ (last.valid /\ ~last.top /\ last.child.error # NoError)
       => /\ last.state = last.child.spawn.state
          /\ (last.child.message.target = Empty)
               => (last.state[last.child.message.caller].nonce =
                     last.child.spawn.before[last.child.message.caller].nonce
                     + 1)
  /\ (last.valid /\ last.pm_error # NoError)
       => last.pm_state = last.child.pre.state
  /\ phase = "running" => Len(snapshots) >= Len(frames)

\* a failed frame in which a create child had failed before: the nonce
\* increment of CREATE was there at its end and is gone after it
C7_Witness ==
  /\ last.valid
  /\ last.pm_error # NoError
  /\ last.child.children # {}
  /\ last.child.stack = <<0>>
  /\ last.child.warm_code_addresses = {}
  /\ last.end_state[last.child.message.current_target].nonce =
       last.pm_state[last.child.message.current_target].nonce + 1

\* C8: no frame is deeper than 1024 and the depth check of
\* process_message never fires; a frame at depth 1024 spawns no child,
\* and a CALL-family or CREATE opcode it runs without raising pushes 0,
\* moves to the next opcode and costs it no more than its own fee.
C8_DepthLimit ==
  /\ [](\A evm \in AllFrames :
          /\ evm.message.depth <= STACK_DEPTH_LIMIT
          /\ evm.error # "StackDepthLimitError"
          /\ evm.message.depth = STACK_DEPTH_LIMIT => evm.children = {})
  /\ [][(/\ phase = "running"
         /\ Top.message.depth = STACK_DEPTH_LIMIT
         /\ Len(frames') >= Len(frames)
         /\ frames'[Len(frames)].stack # Top.stack)
          => /\ Len(frames') = Len(frames)
             /\ frames'[Len(frames)].stack = Append(Top.stack, 0)
             /\ frames'[Len(frames)].pc = Top.pc + 1
             /\ frames'[Len(frames)].error = NoError
             /\ ~frames'[Len(frames)].done
             /\ frames'[Len(frames)].gas_left + OpcodeFeeBound
                  >= Top.gas_left]_vars

\* a frame at depth 1024, spawned by a parent at depth 1023, whose first
\* opcode asked for a child and got 0
C8_Witness ==
  /\ Len(frames) = 2
  /\ Top.message.depth = STACK_DEPTH_LIMIT
  /\ frames[1].message.depth = STACK_DEPTH_LIMIT - 1
  /\ Top.stack = <<0>>
  /\ Top.pc = 1
  /\ ~Top.done
  /\ Top.gas_left > OpcodeFeeBound

\* the logs of the frames that did not fail, in the order of emission
SurvivingLogs == SelectSeq(emitted, LAMBDA l : l.frame \notin failed)

\* C9: the logs of a successful top-level result are the logs emitted by
\* the frames that neither failed nor ran below a failed frame, in the
\* order in which they were emitted.
C9_LogsInExecutionOrder ==
  (phase = "done" /\ result.error = NoError)
    => result.logs = SurvivingLogs

\* a result with a log of a child before a later log of the top frame
C9_Witness ==
  /\ phase = "done"
  /\ result.error = NoError
  /\ Len(result.logs) = 2
  /\ result.logs[1].frame = 2
  /\ result.logs[2].frame = 1

\* C10: when the top-level frame ended with an error, the output has no
\* logs, no accounts to delete and the refund of set_delegation only;
\* gas_left, error and return_data are those of the frame.
C10_TopLevelError ==
  (phase = "done" /\ result.error # NoError)
    => /\ result.logs = <<>>
       /\ result.accounts_to_delete = {}
       /\ result.refund_counter =
            (IF message.authorizations # 0 THEN set_delegation(message)
             ELSE 0)
       /\ result.gas_left = last.child.gas_left
       /\ result.error = last.child.error
       /\ result.return_data = last.child.output

\* a top-level frame with an authorization that earned a refund and then
\* reverted with gas left and an output
C10_Witness ==
  /\ phase = "done"
  /\ result.error = Revert
  /\ message.authorizations # 0
  /\ last.child.refund_counter > 0
  /\ result.gas_left > 0
  /\ result.return_data # <<>>

\* C11: process_message_call on a create message whose current_target has
\* code, a nonzero nonce or storage returns at once: the output has the
\* error AddressCollision, gas_left 0, refund_counter 0 and no logs,
\* accounts to delete or return data; the world-state, the transient
\* storage and the created accounts are untouched, no snapshot is opened
\* and no frame runs.
C11_TopLevelCollision ==
  /\ [][(/\ phase = "start"
         /\ message.target = Empty
         /\ \/ state[message.current_target].code # <<>>
            \/ state[message.current_target].nonce # 0
            \/ state[message.current_target].storage # 0)
          => /\ phase' = "done"
             /\ result' =
                  [valid |-> TRUE, gas_left |-> 0, refund_counter |-> 0,
                   logs |-> <<>>, accounts_to_delete |-> {},
                   error |-> "AddressCollision", return_data |-> <<>>]
             /\ state' = state
             /\ transient' = transient
             /\ created_accounts' = created_accounts
             /\ snapshots' = <<>>
             /\ frames' = <<>>
             /\ nframes' = 0
             /\ steps' = 0]_vars
  /\ []((phase = "done" /\ result.error = "AddressCollision")
          => (nframes = 0 /\ snapshots = <<>>))

\* the output of a creation with value at an address that holds storage
\* and nothing else: the storage is there and S has kept its ether
C11_Witness ==
  /\ phase = "done"
  /\ result.error = "AddressCollision"
  /\ state["N"] = [EMPTY_ACCOUNT EXCEPT !.storage = 1]
  /\ message.value = 1
  /\ state["S"] = InitialState["S"]

\* C12: when the init code of a create frame has ended without error,
\* the deposit fails with InvalidContractPrefix if the code returned
\* starts with 0xEF, and with OutOfGasError if gas_left < 200 * len(code)
\* or len(code) > 24576.  On failure the frame has gas_left 0, empty
\* output and the error, both snapshots are closed and the state and the
\* transient storage are those before process_create_message; otherwise
\* the code is at current_target, gas_left is 200 * len(code) less and
\* both snapshots are closed with everything else kept.
C12_CodeDeposit ==
  [][(/\ phase = "running"
      /\ Top.done
      /\ Top.message.target = Empty
      /\ Top.error = NoError)
       => LET code == Top.output
              fee == 200 * Len(code)
              prefixed == Len(code) > 0 /\ code[1] = 239
              poor == Top.gas_left < fee
              large == Len(code) > 24576
              child == last'.child
          IN  /\ last'.valid
              /\ Len(snapshots') = Len(snapshots) - 2
              /\ IF prefixed \/ poor \/ large
                 THEN /\ child.error = IF prefixed THEN "InvalidContractPrefix"
                                       ELSE "OutOfGasError"
                      /\ child.gas_left = 0
                      /\ child.output = <<>>
                      /\ state' = Top.spawn.state
                      /\ transient' = Top.pre.transient
                 ELSE /\ child.error = NoError
                      /\ child.gas_left = Top.gas_left - fee
                      /\ state' =
                           [state EXCEPT
                              ![Top.message.current_target].code = code]
                      /\ transient' = transient]_vars

\* a creation with value that could pay for the deposit and returned
\* one byte more than MAX_CODE_SIZE: the nonce, the ether and the storage
\* written by the init code are back as they were
C12_Witness ==
  /\ last.valid
  /\ last.child.message.target = Empty
  /\ last.pm_error = NoError
  /\ last.child.error = "OutOfGasError"
  /\ Len(last.child.memory) > MAX_CODE_SIZE
  /\ last.child.message.gas > GAS_CODE_DEPOSIT * (MAX_CODE_SIZE + 1) + TopGas
  /\ last.child.message.value = 1
  /\ last.end_state["N"].storage = 1
  /\ last.end_state["N"].nonce = 1
  /\ state["N"] = EMPTY_ACCOUNT
  /\ state["S"] = InitialState["S"]

\* the address CREATE or CREATE2 of the running frame computes
ContractAddressOf(op, salt) ==
  IF op = "CREATE"
  THEN compute_contract_address(
         Top.message.current_target,
         state[Top.message.current_target].nonce)
  ELSE compute_create2_contract_address(Top.message.current_target, salt,
                                        <<>>)

\* the step is a CREATE or CREATE2 of the running frame that got as far
\* as the collision check (no exception, and not refused for the balance,
\* the nonce or the depth of the sender) and found the address taken
CollidingCreate(op, endowment, w, salt) ==
  /\ phase = "running"
  /\ ~Top.done
  /\ create_family(op, endowment, w[1], w[2], salt)
  /\ frames'[Len(frames)].error = NoError
  /\ state[Top.message.current_target].balance >= endowment
  /\ state[Top.message.current_target].nonce # MAX_NONCE
  /\ Top.message.depth < STACK_DEPTH_LIMIT
  /\ \/ state[ContractAddressOf(op, salt)].code # <<>>
     \/ state[ContractAddressOf(op, salt)].nonce # 0
     \/ state[ContractAddressOf(op, salt)].storage # 0

\* C13: a CREATE or CREATE2 that reaches the collision check with an
\* address that has code, a nonzero nonce or storage pushes 0, adds 1 to
\* the nonce of the sender and changes nothing else of the state, spawns
\* no frame, has the address in accessed_addresses, and the frame goes
\* on at the next opcode without an error.
C13_SoftCollision ==
  [][\A op \in {"CREATE", "CREATE2"}, endowment \in Endowments,
        w \in InitCodeWindows, salt \in Salts :
       CollidingCreate(op, endowment, w, salt)
         => /\ Len(frames') = Len(frames)
            /\ nframes' = nframes
            /\ frames'[Len(frames)].stack = Append(Top.stack, 0)
            /\ state' = [state EXCEPT
                           ![Top.message.current_target].nonce = @ + 1]
            /\ ContractAddressOf(op, salt)
                 \in frames'[Len(frames)].accessed_addresses
            /\ frames'[Len(frames)].pc = Top.pc + 1
            /\ ~frames'[Len(frames)].done
            /\ frames'[Len(frames)].children = Top.children]_vars

\* the top frame after a first opcode that pushed 0, left it without
\* children, made B warm and took its nonce from 1 to 2: a CREATE2 whose
\* address was that of B
C13_Witness ==
  /\ Len(frames) = 1
  /\ nframes = 1
  /\ ~Top.done
  /\ Top.pc = 1
  /\ Top.stack = <<0>>
  /\ Top.warm_code_addresses = {}
  /\ "B" \in Top.accessed_addresses
  /\ state["A"].nonce = InitialState["A"].nonce + 1

\* the step is a CALL with value, a CREATE, a CREATE2 or a SELFDESTRUCT
\* of the running frame
WriteAttempt ==
  /\ phase = "running"
  /\ ~Top.done
  /\ \/ \E gas \in GasArgs, to \in Targets, value \in Values \ {0},
           w \in CallWindows :
          call_family("CALL", gas, to, value, w[1], w[2])
     \/ \E op \in {"CREATE", "CREATE2"}, endowment \in Endowments,
           w \in InitCodeWindows, salt \in Salts :
          create_family(op, endowment, w[1], w[2], salt)
     \/ SelfDestruct

\* C14: a CALL with value, a CREATE, a CREATE2 or a SELFDESTRUCT run by
\* a static frame halts it and leaves the world-state, the transient
\* storage and the call stack as they are: with WriteInStaticContext when
\* the frame can pay the fee of the opcode, else with OutOfGasError, which
\* is raised first.  When the frame a STATICCALL spawned has halted so,
\* the caller has 0 on its stack and empty return_data, and the
\* world-state is the one the STATICCALL found.
C14_StaticContext ==
  /\ [][(phase = "running" /\ Top.message.is_static /\ WriteAttempt)
          => /\ Len(frames') = Len(frames)
             /\ frames'[Len(frames)].done
             /\ frames'[Len(frames)].error
                  \in {"WriteInStaticContext", "OutOfGasError"}
             /\ (Top.gas_left >= OpcodeFeeBound)
                  => frames'[Len(frames)].error = "WriteInStaticContext"
             /\ frames'[Len(frames)].gas_left = 0
             /\ frames'[Len(frames)].output = <<>>
             /\ state' = state
             /\ transient' = transient
             /\ created_accounts' = created_accounts]_vars
  /\ []((/\ last.valid
         /\ last.child.op = "STATICCALL"
         /\ last.child.error = "WriteInStaticContext")
          => /\ last.parent.stack # <<>>
             /\ last.parent.stack[Len(last.parent.stack)] = 0
             /\ last.parent.return_data = <<>>
             /\ last.state = last.child.spawn.before
             /\ last.pm_state = last.child.spawn.before)

\* a frame spawned by a STATICCALL that was given gas and halted in a
\* SELFDESTRUCT to N, which it had made warm: its caller got 0
C14_Witness ==
  /\ last.valid
  /\ last.child.op = "STATICCALL"
  /\ last.child.error = "WriteInStaticContext"
  /\ last.child.message.gas > OpcodeFeeBound
  /\ last.child.pc = 0
  /\ "N" \in last.child.accessed_addresses
  /\ last.parent.stack = <<0>>
  /\ last.parent.return_data = <<>>

\* the step is a SELFDESTRUCT of the running frame with this beneficiary
\* that raised nothing
SelfDestructsTo(beneficiary) ==
  /\ phase = "running"
  /\ ~Top.done
  /\ steps < MaxSteps
  /\ LET r == selfdestruct(Top, state, beneficiary)
     IN  /\ r.evm.error = NoError
         /\ Wrote(r.evm, r.state, transient)

\* C15: a SELFDESTRUCT that raises nothing halts the frame with pc as it
\* was; with a beneficiary other than the executing account C, the
\* beneficiary has gained the whole balance of C, C has none left and no
\* other account has changed; C is added to accounts_to_delete exactly
\* when it is one of the created accounts, then with balance 0.  No
\* frame ever has an account outside the created accounts in
\* accounts_to_delete.
C15_SelfDestruct ==
  /\ [][\A b \in Beneficiaries :
          SelfDestructsTo(b)
            => LET C == Top.message.current_target
                   evm == frames'[Len(frames)]
               IN  /\ ~Top.message.is_static
                   /\ Len(frames') = Len(frames)
                   /\ evm.done
                   /\ ~evm.running
                   /\ evm.pc = Top.pc
                   /\ (b # C) =>
                        state' = [state EXCEPT
                                    ![b].balance = @ + state[C].balance,
                                    ![C].balance = 0]
                   /\ evm.accounts_to_delete =
                        Top.accounts_to_delete
                        \cup (IF C \in created_accounts THEN {C} ELSE {})
                   /\ (C \in created_accounts) => state'[C].balance = 0]_vars
  /\ [](\A evm \in AllFrames : evm.accounts_to_delete \subseteq created_accounts)

\* the top frame, of the contract A that was there before, after a first
\* opcode that halted it and moved its two wei to B: nothing to delete
C15_Witness ==
  /\ Len(frames) = 1
  /\ Top.done
  /\ ~Top.running
  /\ Top.error = NoError
  /\ Top.pc = 0
  /\ Top.accounts_to_delete = {}
  /\ state["A"].balance = 0
  /\ state["B"].balance = InitialState["A"].balance + 1

\* C16 as stated: after a SELFDESTRUCT whose beneficiary is the executing
\* account, the balance of that account is 0.
C16_AsStated ==
  [][\A b \in Beneficiaries :
       (SelfDestructsTo(b) /\ b = Top.message.current_target)
         => state'[b].balance = 0]_vars

\* C16: after a SELFDESTRUCT whose beneficiary is the executing account,
\* the balance of that account is 0 if the account was created in this
\* transaction, and what it was otherwise; no other account changes.
C16_SelfBeneficiary ==
  [][\A b \in Beneficiaries :
       (SelfDestructsTo(b) /\ b = Top.message.current_target)
         => state' = [state EXCEPT
                        ![b].balance =
                           IF b \in created_accounts THEN 0 ELSE @]]_vars

\* the frame of a contract being created with an endowment, halted by a
\* SELFDESTRUCT that left its account without ether and registered it,
\* while no other account has gained the wei
C16_Witness ==
  /\ Len(frames) = 2
  /\ Top.message.target = Empty
  /\ Top.message.value = 1
  /\ Top.done
  /\ ~Top.running
  /\ Top.pc = 0
  /\ Top.accounts_to_delete = {"N"}
  /\ state["N"].balance = 0
  /\ state["A"].balance = InitialState["A"].balance
  /\ state["B"].balance = 0
  /\ state["S"].balance = InitialState["S"].balance - 1

\* the running frame was spawned by a DELEGATECALL and the step is this
\* action, which raised nothing
InDelegate(A) ==
  /\ phase = "running"
  /\ Len(frames) >= 2
  /\ Top.op = "DELEGATECALL"
  /\ A
  /\ frames'[Len(frames)].error = NoError

\* the word the step has pushed on the stack of the running frame
Pushed == frames'[Len(frames)].stack[Len(frames'[Len(frames)].stack)]

\* C17: the message of a frame spawned by DELEGATECALL has the
\* current_target, the caller and the value of the message of the frame
\* that ran the opcode, should_transfer_value = false, one more of depth
\* and the code of the account the opcode named; the state does not
\* change when the frame is entered; ADDRESS, CALLER and CALLVALUE run in
\* it push the address, the caller and the value of the parent.
C17_DelegateCallContext ==
  /\ [](\A i \in 2..Len(frames) :
          (frames[i].op = "DELEGATECALL")
            => LET child == frames[i].message
                   parent == frames[i - 1].message
               IN  /\ child.current_target = parent.current_target
                   /\ child.caller = parent.caller
                   /\ child.value = parent.value
                   /\ ~child.should_transfer_value
                   /\ child.depth = parent.depth + 1
                   /\ child.code_address \in Targets
                   /\ child.code =
                        frames[i].spawn.before[child.code_address].code)
  /\ [][(/\ phase = "running"
         /\ Len(frames') = Len(frames) + 1
         /\ frames'[Len(frames')].op = "DELEGATECALL")
          => (state' = state /\ transient' = transient)]_vars
  /\ [][/\ (InDelegate(AddressOp)
             => Pushed = AddressWord(
                           frames[Len(frames) - 1].message.current_target))
         /\ (InDelegate(Caller)
             => Pushed = AddressWord(frames[Len(frames) - 1].message.caller))
         /\ (InDelegate(CallValue)
             => Pushed = frames[Len(frames) - 1].message.value)]_vars

\* a frame running the code of B for A, entered without a transfer, in
\* which CALLER has pushed S and CALLVALUE the wei S sent to A
C17_Witness ==
  /\ Len(frames) = 2
  /\ Top.op = "DELEGATECALL"
  /\ Top.message.code = InitialState["B"].code
  /\ Top.message.current_target = "A"
  /\ Top.stack = <<AddressWord("S"), 1>>
  /\ state["A"].balance = InitialState["A"].balance + 1
  /\ state["S"].balance = InitialState["S"].balance - 1

\* C18 as stated: a frame execute_code has returned with an error has
\* running = false, and empty output if the error is an exceptional halt.
C18_AsStated ==
  \A i \in 1..Len(frames) :
    (frames[i].done /\ frames[i].error # NoError)
      => /\ ~frames[i].running
         /\ (frames[i].error \in ExceptionalHalt) => frames[i].output = <<>>

\* C18: a frame execute_code has returned with an error has running still
\* true; its output is empty if the error is an exceptional halt, and
\* the window of memory REVERT was given if the error is Revert.
C18_ErrorLeavesRunning ==
  \A i \in 1..Len(frames) :
    (frames[i].done /\ frames[i].error # NoError)
      => /\ frames[i].running
         /\ (frames[i].error \in ExceptionalHalt) => frames[i].output = <<>>
         /\ (frames[i].error = Revert)
              => \E w \in OutputWindows :
                   /\ w[1] + w[2] <= Len(frames[i].memory)
                   /\ frames[i].output =
                        memory_read_bytes(frames[i].memory, w[1], w[2])

\* a frame returned by execute_code after a REVERT of the calldata it had
\* copied: the error is set, the output is kept, running is true
C18_Witness ==
  /\ phase = "running"
  /\ Top.done
  /\ Top.error = Revert
  /\ Top.running
  /\ Top.output = TopData

AccessFee(a) == IF a \in Top.accessed_addresses THEN 100 ELSE 2600

\* the running frame after the step
After == frames'[Len(frames)]

\* the step is this opcode of the running frame, which is charged `fee`:
\* it raises OutOfGasError if the frame cannot pay, else it takes the fee
Charges(A, fee) ==
  (phase = "running" /\ ~Top.done /\ A)
    => IF Top.gas_left >= fee
       THEN After.error = NoError /\ After.gas_left = Top.gas_left - fee
       ELSE After.error = "OutOfGasError"

\* what EXTCODECOPY of two bytes to the start of memory costs besides the
\* access to the account
CopyExtras(a) ==
  (IF a \notin Top.warm_code_addresses
   THEN code_access_cost(state[a].code) ELSE 0)
  + GAS_COPY
  + calculate_gas_extend_memory(Top.memory, <<(<<0, 2>>)>>).cost

\* what an opcode of the CALL family costs besides the access to the
\* account and the gas set aside for the child
CallExtras(op, to, value, w) ==
  (IF to \notin Top.warm_code_addresses
   THEN code_access_cost(state[to].code) ELSE 0)
  + (IF op = "CALL" /\ value # 0 /\ ~is_account_alive(state, to)
     THEN GAS_NEW_ACCOUNT ELSE 0)
  + (IF op \in {"CALL", "CALLCODE"} /\ value # 0 THEN GAS_CALL_VALUE ELSE 0)
  + calculate_gas_extend_memory(Top.memory, w).cost

\* a step of the CALL family that raised nothing: the child it spawned was
\* forwarded gas out of what the fees left, or the frame it refused in
\* has what the fees left and the stipend
CallCharges(op, to, value, w) ==
  LET fees == AccessFee(to) + CallExtras(op, to, value, w)
  IN  (/\ phase = "running"
       /\ ~Top.done
       /\ \E gas \in GasArgs : call_family(op, gas, to, value, w[1], w[2]))
        => /\ to \in After.accessed_addresses
           /\ (Len(frames') > Len(frames))
                => frames'[Len(frames')].spawn.gas_before_forward =
                     Top.gas_left - fees
           /\ (Len(frames') = Len(frames) /\ After.error = NoError)
                => After.gas_left =
                     Top.gas_left - fees
                     + (IF op \in {"CALL", "CALLCODE"} /\ value # 0
                        THEN GAS_CALL_STIPEND ELSE 0)

\* C20: the access sets of a frame never lose an element, whatever the
\* opcode or the child that is merged.  BALANCE, EXTCODESIZE, EXTCODEHASH,
\* EXTCODECOPY and the CALL family leave the address they are given in
\* accessed_addresses and charge for the access 2600 if it was not there
\* and 100 if it was.
C20_AccessSets ==
  /\ [][\A i \in 1..Len(frames) :
          (i <= Len(frames') /\ frames'[i].id = frames[i].id)
            => /\ frames[i].accessed_addresses
                    \subseteq frames'[i].accessed_addresses
               /\ frames[i].accessed_storage_keys
                    \subseteq frames'[i].accessed_storage_keys
               /\ frames[i].warm_code_addresses
                    \subseteq frames'[i].warm_code_addresses]_vars
  /\ [][\A a \in AccessTargets :
          /\ Charges(Fetching /\ Local(balance(Top, state, a)), AccessFee(a))
          /\ Charges(Fetching /\ Local(extcodesize(Top, state, a)),
                     AccessFee(a))
          /\ Charges(Fetching /\ Local(extcodehash(Top, state, a)),
                     AccessFee(a))
          /\ Charges(Fetching /\ Local(extcodecopy(Top, state, a, 0, 0, 2)),
                     AccessFee(a) + CopyExtras(a))
          /\ (/\ phase = "running"
              /\ ~Top.done
              /\ \/ Local(balance(Top, state, a))
                 \/ Local(extcodesize(Top, state, a))
                 \/ Local(extcodehash(Top, state, a))
                 \/ Local(extcodecopy(Top, state, a, 0, 0, 2)))
               => a \in After.accessed_addresses]_vars
  /\ [][\A to \in Targets, w \in CallWindows :
          /\ \A value \in Values :
               /\ CallCharges("CALL", to, value, w)
               /\ CallCharges("CALLCODE", to, value, w)
          /\ CallCharges("DELEGATECALL", to, 0, w)
          /\ CallCharges("STATICCALL", to, 0, w)]_vars

\* a frame whose first two opcodes read the empty account N, which its
\* message had not made warm: 2600 for the first access, 100 for the
\* second
C20_Witness ==
  /\ phase = "running"
  /\ ~Top.done
  /\ Top.pc = 2
  /\ Top.stack = <<0, 0>>
  /\ "N" \notin Top.message.accessed_addresses
  /\ "N" \in Top.accessed_addresses
  /\ Top.warm_code_addresses = Top.message.warm_code_addresses
  /\ Top.gas_left = Top.message.gas - 2600 - 100

\* the gas held by the frames of the call stack
RECURSIVE TotalGas(_)
TotalGas(fs) ==
  IF fs = <<>> THEN 0 ELSE Head(fs).gas_left + TotalGas(Tail(fs))

\* C21: process_message_call runs to completion.  No frame holds negative
\* gas and no frame is deeper than the depth limit; every opcode either
\* ends its frame or leaves less gas in the call stack than it found, a
\* child frame included; a frame that has ended is popped without adding
\* gas to the call stack; and eventually process_message_call has
\* returned its MessageCallOutput (for a message past the depth limit,
\* which no caller builds, it has raised instead).
C21_RunsToCompletion ==
  /\ [](\A i \in 1..Len(frames) :
          /\ frames[i].gas_left >= 0
          /\ frames[i].message.depth = message.depth + i - 1
          /\ frames[i].message.depth <= STACK_DEPTH_LIMIT)
  /\ [][steps' = steps + 1
          => \/ TotalGas(frames') < TotalGas(frames)
             \/ /\ Len(frames') = Len(frames)
                /\ frames'[Len(frames)].done]_vars
  /\ [][(phase = "running" /\ Top.done)
          => /\ Len(frames') = Len(frames) - 1
             /\ TotalGas(frames') <= TotalGas(frames)]_vars
  /\ [](phase = "done" => result.valid)
  /\ <>(IF depth_limit_reached(message)
        THEN phase = "raised"
        ELSE phase = "done" /\ result.valid)

\* the output of a message that had little gas, paid for opcodes with it
\* and ran out of it
C21_Witness ==
  /\ phase = "done"
  /\ message.gas = SmallGas
  /\ steps >= 2
  /\ result.valid
  /\ result.error = "OutOfGasError"

\* the snapshots the frames of a call stack hold open: one taken by
\* process_message, and one more by process_create_message for a create
\* frame
RECURSIVE OwnSnapshots(_)
OwnSnapshots(fs) ==
  IF fs = <<>> THEN 0
  ELSE (IF Head(fs).message.target = Empty THEN 2 ELSE 1)
       + OwnSnapshots(Tail(fs))

\* C22: every snapshot that process_message or process_create_message
\* opens is closed, by a commit or by a rollback, when the call returns:
\* the open snapshots are at all times those of the frames that have not
\* returned, one for a call frame and two for a create frame, whichever
\* way the frames below them ended, and none is open when
\* process_message_call has returned.
C22_SnapshotsBalanced ==
  /\ phase = "start" => snapshots = <<>>
  /\ phase = "running" => Len(snapshots) = OwnSnapshots(frames)
  /\ phase = "done" => snapshots = <<>>

\* process_message_call has returned after a create child of the top
\* frame failed and a call to the account that delegates to the precompile
\* was returned without running
C22_Witness ==
  /\ phase = "done"
  /\ snapshots = <<>>
  /\ nframes = 3
  /\ failed = {2}
  /\ created_accounts # {}
  /\ message.target = "A"
  /\ state["B"].code = DelegationToPrecompile
  /\ last.valid
  /\ last.child.stack = <<0, 1>>
  /\ last.child.return_data = <<>>

\* the step spawns a frame
Spawns == phase = "running" /\ Len(frames') = Len(frames) + 1

\* the frame the step spawns
Spawned == frames'[Len(frames')]

\* C23: a static frame has static descendants only.  The child of a
\* CALL-family opcode is static exactly when the opcode is STATICCALL or
\* its parent is static; a create frame is never static and is never
\* spawned by a static frame, in which CREATE and CREATE2 raise
\* WriteInStaticContext (or OutOfGasError, when the frame cannot pay the
\* opcode) and build no frame.
C23_StaticDescendants ==
  /\ [](\A i \in 1..Len(frames) : \A j \in i..Len(frames) :
          frames[i].message.is_static => frames[j].message.is_static)
  /\ [][Spawns =>
          IF Spawned.message.target = Empty
          THEN ~Top.message.is_static /\ ~Spawned.message.is_static
          ELSE Spawned.message.is_static
                 <=> (Spawned.op = "STATICCALL" \/ Top.message.is_static)]_vars
  /\ [][\A op \in {"CREATE", "CREATE2"}, endowment \in Endowments,
          w \in InitCodeWindows, salt \in Salts :
          (/\ phase = "running"
           /\ Top.message.is_static
           /\ create_family(op, endowment, w[1], w[2], salt))
            => /\ Len(frames') = Len(frames)
               /\ After.done
               /\ After.error \in {"WriteInStaticContext", "OutOfGasError"}
               /\ state' = state]_vars

\* a frame spawned by a CALL of a frame that a STATICCALL had spawned: it
\* is static though its opcode is not STATICCALL
C23_Witness ==
  /\ Len(frames) = 3
  /\ ~frames[1].message.is_static
  /\ frames[2].op = "STATICCALL"
  /\ frames[3].op \in {"CALL", "CALLCODE", "DELEGATECALL"}
  /\ frames[3].message.is_static

\* the step is a CALL or CALLCODE of the running frame that asks for more
\* value than the executing account holds, and it raised nothing
Underfunded(op, to, value, w) ==
  /\ phase = "running"
  /\ ~Top.done
  /\ get_account(state, Top.message.current_target).balance < value
  /\ \E gas \in GasArgs : call_family(op, gas, to, value, w[1], w[2])
  /\ After.error = NoError

\* C24: a CALL or a CALLCODE that asks for more value than the executing
\* account holds, and that the frame can pay for, spawns no frame and
\* changes nothing in the world-state; it pushes 0, empties return_data,
\* moves to the next opcode and gives back the gas set aside for the
\* child, stipend included, so that the frame is left with its gas less
\* the fees of the opcode plus the stipend.  CALLCODE does so as CALL
\* does.
C24_UnderfundedCall ==
  [][\A op \in {"CALL", "CALLCODE"}, to \in Targets, value \in Values,
      w \in CallWindows :
      Underfunded(op, to, value, w)
        => /\ Len(frames') = Len(frames)
           /\ nframes' = nframes
           /\ state' = state
           /\ After.stack = Append(Top.stack, 0)
           /\ After.return_data = <<>>
           /\ After.pc = Top.pc + 1
           /\ ~After.done
           /\ After.children = Top.children
           /\ After.gas_left =
                Top.gas_left
                - (AccessFee(to) + CallExtras(op, to, value, w))
                + GAS_CALL_STIPEND]_vars

\* the frame of B, called without value, whose first opcode asked to
\* send one wei: it got 0 and the stipend
C24_Witness ==
  /\ Len(frames) = 2
  /\ ~Top.done
  /\ Top.message.current_target = "B"
  /\ get_account(state, "B").balance = 0
  /\ Top.pc = 1
  /\ Top.stack = <<0>>
  /\ Top.children = {}
  /\ Top.return_data = <<>>
  /\ Top.gas_left =
       Top.message.gas - GAS_WARM_ACCESS - GAS_CALL_VALUE
       - calculate_gas_extend_memory(<<>>, <<(<<0, 2>>), (<<1, 1>>)>>).cost
       + GAS_CALL_STIPEND

\* what CREATE or CREATE2 with an init code of two bytes at the start of
\* memory charges before it sets gas aside for the child
CreateFee(op, w) ==
  GAS_CREATE
  + calculate_gas_extend_memory(Top.memory, <<w>>).cost
  + init_code_cost(w[2])
  + (IF op = "CREATE2" THEN GAS_KECCAK256_WORD * (ceil32(w[2]) \div 32)
     ELSE 0)

\* the executing account cannot be the sender of a creation
CannotCreate(endowment) ==
  LET sender == get_account(state, Top.message.current_target)
  IN  \/ sender.balance < endowment
      \/ sender.nonce = MAX_NONCE
      \/ Top.message.depth + 1 > STACK_DEPTH_LIMIT

\* C25: CREATE and CREATE2 run by a frame that is not static and can pay
\* the opcode, when the executing account holds less than the endowment,
\* has the last nonce, or the child would be deeper than 1024: 0 is
\* pushed, return_data is empty, no frame is spawned, the world-state
\* (the nonce of the sender with it) and accessed_addresses are unchanged,
\* and the frame has its gas less the fee of the opcode, the gas set
\* aside for the child being given back.  In a static frame the opcode
\* raises WriteInStaticContext instead (OutOfGasError if the frame cannot
\* pay the opcode).
C25_CreateRefused ==
  [][\A op \in {"CREATE", "CREATE2"}, endowment \in Endowments,
      w \in InitCodeWindows, salt \in Salts :
      /\ (/\ phase = "running"
          /\ ~Top.done
          /\ ~Top.message.is_static
          /\ CannotCreate(endowment)
          /\ create_family(op, endowment, w[1], w[2], salt)
          /\ After.error = NoError)
           => /\ Len(frames') = Len(frames)
              /\ nframes' = nframes
              /\ state' = state
              /\ created_accounts' = created_accounts
              /\ After.stack = Append(Top.stack, 0)
              /\ After.return_data = <<>>
              /\ After.pc = Top.pc + 1
              /\ ~After.done
              /\ After.accessed_addresses = Top.accessed_addresses
              /\ After.gas_left = Top.gas_left - CreateFee(op, w)
      /\ (/\ phase = "running"
          /\ ~Top.done
          /\ Top.message.is_static
          /\ CannotCreate(endowment)
          /\ create_family(op, endowment, w[1], w[2], salt))
           => /\ Len(frames') = Len(frames)
              /\ After.done
              /\ After.error = IF Top.gas_left >= CreateFee(op, w)
                               THEN "WriteInStaticContext"
                               ELSE "OutOfGasError"
              /\ After.gas_left = 0
              /\ state' = state]_vars

\* the top frame of A, which has the last nonce: its first opcode was a
\* creation, refused at the price of the opcode
C25_Witness ==
  /\ Len(frames) = 1
  /\ ~Top.done
  /\ get_account(state, "A").nonce = MAX_NONCE
  /\ Top.pc = 1
  /\ Top.stack = <<0>>
  /\ Top.children = {}
  /\ Top.accessed_addresses = Top.message.accessed_addresses
  /\ Top.gas_left < Top.message.gas - GAS_CREATE
  /\ Top.gas_left > Top.message.gas - 2 * GAS_CREATE

\* a create child has returned to its parent
CreateReturned ==
  last.valid /\ ~last.top /\ last.child.message.target = Empty

\* the word on top of the parent's stack after the merge
Merged == last.parent.stack[Len(last.parent.stack)]

\* C26: when a create child has returned, its parent has on top of its
\* stack the address of the new contract and empty return_data if the
\* child had no error; else it has 0 there and the child's output as
\* return_data: the bytes given to REVERT when the child reverted, nothing
\* when it halted exceptionally or failed the code deposit.
C26_CreateReturn ==
  CreateReturned
    => /\ last.parent.stack # <<>>
       /\ last.parent.pc > 0
       /\ IF last.child.error = NoError
          THEN /\ Merged = AddressWord(last.child.message.current_target)
               /\ last.parent.return_data = <<>>
               /\ get_account(last.state,
                              last.child.message.current_target).code
                    = last.child.output
          ELSE /\ Merged = 0
               /\ last.parent.return_data = last.child.output
               /\ (last.child.error = Revert)
                    => (\E w \in OutputWindows :
                         last.child.output =
                           memory_read_bytes(last.child.memory, w[1], w[2]))
               /\ (last.child.error \in ExceptionalHalt)
                    => last.child.output = <<>>
               /\ (last.pm_error = NoError)
                    => last.child.error \in ExceptionalHalt

\* a create child that reverted with two bytes, which its parent holds as
\* return_data under a 0
C26_Witness ==
  /\ CreateReturned
  /\ last.child.error = Revert
  /\ Len(last.parent.return_data) = 2
  /\ Merged = 0
  /\ last.child.gas_left > 0

\* the child of a CALL-family opcode has returned to its parent
CallReturned ==
  last.valid /\ ~last.top /\ last.child.message.target # Empty

\* the bytes of the child's output that its parent's memory receives
Copied == Min(last.child.out[2], Len(last.child.output))

\* C27: when the child of a CALL-family opcode has returned, its parent
\* has 1 on top of its stack if the child had no error, else 0; its
\* return_data is the child's output in both cases; and its memory is the
\* memory it had when it spawned the child, with the first
\* min(out_size, len(output)) bytes of the output from the start of the
\* output window on and every other byte as it was.
C27_CallReturn ==
  CallReturned
    => /\ last.parent.stack # <<>>
       /\ Merged = (IF last.child.error = NoError THEN 1 ELSE 0)
       /\ last.parent.return_data = last.child.output
       /\ Len(last.parent.memory) = Len(last.child.spawn.memory)
       /\ \A i \in 1..Len(last.parent.memory) :
            last.parent.memory[i] =
              IF i > last.child.out[1] /\ i <= last.child.out[1] + Copied
              THEN last.child.output[i - last.child.out[1]]
              ELSE last.child.spawn.memory[i]

\* the precompile returned the two bytes of calldata its caller had copied
\* to memory: the first of them is written over the second, the one byte
\* of the output window
C27_Witness ==
  /\ CallReturned
  /\ last.child.error = NoError
  /\ last.child.output = TopData
  /\ last.child.out = <<1, 1>>
  /\ SubSeq(last.child.spawn.memory, 1, 2) = TopData
  /\ SubSeq(last.parent.memory, 1, 2) = <<TopData[1], TopData[1]>>
  /\ last.parent.return_data = TopData
  /\ Merged = 1

\* the step enters a frame: process_message has called execute_code
Enters == Len(frames') = Len(frames) + 1

\* the frame is one that execute_code does not hand to the loop
AtPrecompile(evm) == evm.message.code_address \in PRE_COMPILED_CONTRACTS

\* what the identity precompile charges the frame
IdentityFee(evm) ==
  GAS_IDENTITY + GAS_IDENTITY_WORD * (ceil32(Len(evm.message.data)) \div 32)

\* C28 as stated: a frame whose code address is a precompile and whose
\* precompiles are disabled is run by the loop, so that with code to run
\* it is not returned by execute_code before an opcode is fetched.
C28_AsStated ==
  [][(/\ Enters
      /\ AtPrecompile(Spawned)
      /\ Spawned.message.disable_precompiles
      /\ Spawned.message.code # <<>>)
       => ~Spawned.done]_vars

\* C28: a frame is handed to a precompile exactly when its code address
\* is a precompile and disable_precompiles is false: it is then returned
\* with the precompile's output and charge, or with its OutOfGasError.
\* A frame whose code address is a precompile and whose precompiles are
\* disabled is neither handed to the precompile nor run by the loop:
\* execute_code returns it as it was built, without error, with empty
\* output and all the gas of its message, whatever code the message
\* holds.  Every other frame is given to the loop.  No frame at a
\* precompile address ever runs an opcode.
C28_PrecompileDispatch ==
  /\ [][Enters =>
          IF AtPrecompile(Spawned)
          THEN /\ Spawned.done
               /\ IF Spawned.message.disable_precompiles
                  THEN /\ Spawned.error = NoError
                       /\ Spawned.output = <<>>
                       /\ Spawned.gas_left = Spawned.message.gas
                  ELSE IF Spawned.message.gas >= IdentityFee(Spawned)
                  THEN /\ Spawned.error = NoError
                       /\ Spawned.output = Spawned.message.data
                       /\ Spawned.gas_left =
                            Spawned.message.gas - IdentityFee(Spawned)
                  ELSE /\ Spawned.error = "OutOfGasError"
                       /\ Spawned.output = <<>>
                       /\ Spawned.gas_left = 0
          ELSE /\ ~Spawned.done
               /\ Spawned.error = NoError
               /\ Spawned.output = <<>>
               /\ Spawned.gas_left = Spawned.message.gas]_vars
  /\ [](\A evm \in AllFrames :
          AtPrecompile(evm)
            => /\ evm.pc = 0
               /\ evm.stack = <<>>
               /\ evm.memory = <<>>
               /\ evm.children = {}
               /\ evm.running)

\* a call to the account that delegates to the precompile, whose address
\* holds code: the frame came back at once with all its gas, and its
\* caller got 1
C28_Witness ==
  /\ CallReturned
  /\ AtPrecompile(last.child)
  /\ last.child.message.disable_precompiles
  /\ last.child.message.code # <<>>
  /\ last.child.message.gas > 0
  /\ last.child.gas_left = last.child.message.gas
  /\ last.child.error = NoError
  /\ last.child.output = <<>>
  /\ last.child.pc = 0
  /\ Merged = 1

\* the code-access cost the running frame owes for the code of an address
CodeFee(a) ==
  IF a \in Top.warm_code_addresses THEN 0
  ELSE 2 * (ceil32(Len(get_account(state, a).code)) \div 32)

\* a step of the CALL family on the address `to` that raised nothing and
\* spawned a child: what the frame paid besides the access to the
\* account, the value and the memory is the code-access cost it owed
CallPaysCode(op, to, value, w) ==
  (/\ phase = "running"
   /\ ~Top.done
   /\ \E gas \in GasArgs : call_family(op, gas, to, value, w[1], w[2]))
    => /\ to \in After.warm_code_addresses
       /\ Spawns
            => Top.gas_left - Spawned.spawn.gas_before_forward
               - AccessFee(to)
               - (IF op = "CALL" /\ value # 0 /\ ~is_account_alive(state, to)
                  THEN GAS_NEW_ACCOUNT ELSE 0)
               - (IF op \in {"CALL", "CALLCODE"} /\ value # 0
                  THEN GAS_CALL_VALUE ELSE 0)
               - calculate_gas_extend_memory(Top.memory, w).cost
               = CodeFee(to)

\* C29: a frame pays the code-access cost 2 * ceil32(code_len) / 32 of an
\* address at most once.  CALL, CALLCODE, DELEGATECALL, STATICCALL and
\* EXTCODECOPY leave the address in warm_code_addresses, from which
\* nothing is ever removed; they pay the cost if the address was not
\* there and no code-access cost if it was.
C29_CodeAccessOnce ==
  /\ [][\A i \in 1..Len(frames) :
          (i <= Len(frames') /\ frames'[i].id = frames[i].id)
            => frames[i].warm_code_addresses
                 \subseteq frames'[i].warm_code_addresses]_vars
  /\ [][\A a \in AccessTargets :
          (/\ phase = "running"
           /\ ~Top.done
           /\ Local(extcodecopy(Top, state, a, 0, 0, 2)))
            => /\ a \in After.warm_code_addresses
               /\ (After.error = NoError)
                    => Top.gas_left - After.gas_left - AccessFee(a)
                       - GAS_COPY * (ceil32(2) \div 32)
                       - calculate_gas_extend_memory(
                           Top.memory, <<(<<0, 2>>)>>).cost
                       = CodeFee(a)]_vars
  /\ [][\A to \in Targets, w \in CallWindows :
          /\ \A value \in Values :
               /\ CallPaysCode("CALL", to, value, w)
               /\ CallPaysCode("CALLCODE", to, value, w)
          /\ CallPaysCode("DELEGATECALL", to, 0, w)
          /\ CallPaysCode("STATICCALL", to, 0, w)]_vars

\* a frame that copied the code of B twice: the first copy paid the cold
\* access and the code-access cost of B's code, the second the warm access
\* only
C29_Witness ==
  /\ phase = "running"
  /\ Len(frames) = 1
  /\ ~Top.done
  /\ Top.pc = 2
  /\ Top.children = {}
  /\ "B" \notin Top.message.warm_code_addresses
  /\ "B" \in Top.warm_code_addresses
  /\ Top.gas_left =
       Top.message.gas
       - (GAS_COLD_ACCOUNT_ACCESS + code_access_cost(ContractB.code)
          + GAS_COPY
          + calculate_gas_extend_memory(<<>>, <<(<<0, 2>>)>>).cost)
       - (GAS_WARM_ACCESS + GAS_COPY)

\* the step is RETURNDATACOPY with operands w = (memory_start_index,
\* return_data_start_position, size) in the running frame
CopiesReturnData(w) ==
  /\ phase = "running"
  /\ ~Top.done
  /\ Local(returndatacopy(Top, w[1], w[2], w[3]))

\* what that RETURNDATACOPY charges
ReturnDataFee(w) ==
  GAS_VERY_LOW + GAS_RETURN_DATA_COPY * (ceil32(w[3]) \div 32)
  + calculate_gas_extend_memory(Top.memory, <<(<<w[1], w[3]>>)>>).cost

\* C30: RETURNDATACOPY(dst, src, size) in a frame that can pay it.  With
\* src + size > len(return_data) it raises OutOfBoundsRead: the frame
\* ends with that error, gas_left = 0 and empty output, its memory neither
\* grown nor written.  Else the frame goes on at the next opcode with its
\* memory grown to hold the window, return_data[src .. src + size] in the
\* window and every other byte as it was.  (A frame that cannot pay ends
\* with OutOfGasError and its memory as it was.)
C30_ReturnDataCopy ==
  [][\A w \in ReturnDataWindows :
      CopiesReturnData(w)
        => IF Top.gas_left < ReturnDataFee(w)
           THEN /\ After.error = "OutOfGasError"
                /\ After.memory = Top.memory
           ELSE IF w[2] + w[3] > Len(Top.return_data)
           THEN /\ After.done
                /\ After.error = "OutOfBoundsRead"
                /\ After.gas_left = 0
                /\ After.output = <<>>
                /\ After.memory = Top.memory
                /\ After.pc = Top.pc
           ELSE /\ ~After.done
                /\ After.error = NoError
                /\ After.pc = Top.pc + 1
                /\ After.gas_left = Top.gas_left - ReturnDataFee(w)
                /\ After.return_data = Top.return_data
                /\ Len(After.memory) =
                     Len(Top.memory)
                     + calculate_gas_extend_memory(
                         Top.memory, <<(<<w[1], w[3]>>)>>).expand_by
                /\ Len(After.memory) >= (IF w[3] = 0 THEN 0 ELSE w[1] + w[3])
                /\ \A i \in 1..Len(After.memory) :
                     After.memory[i] =
                       IF i > w[1] /\ i <= w[1] + w[3]
                       THEN Top.return_data[w[2] + i - w[1]]
                       ELSE IF i <= Len(Top.memory) THEN Top.memory[i]
                       ELSE 0]_vars

\* a frame that copied the calldata to memory, called the precompile with
\* it and copied the second byte of what came back to the fourth byte of
\* its memory
C30_Witness ==
  /\ phase = "running"
  /\ Len(frames) = 1
  /\ ~Top.done
  /\ Top.pc = 3
  /\ Top.return_data = TopData
  /\ Len(Top.memory) >= 4
  /\ Top.memory[4] = TopData[2]
  /\ Top.memory[3] = 0

(***************************************************************************)
(* C31: the refund counter at the top level                                *)
(***************************************************************************)
\* the refund process_message_call starts from: what set_delegation gives
\* for the authorizations of the message
DelegationRefund ==
  IF message.target # Empty /\ message.authorizations # 0
  THEN set_delegation(message) ELSE 0

\* process_message_call has finished with the top-level frame
TopReturned == last.valid /\ last.top

CopyFee(w) ==
  3 * (ceil32(w[3]) \div 32)
  + calculate_gas_extend_memory(Top.memory, <<(<<w[1], w[3]>>)>>).cost

\* the step is RETURNDATACOPY on w and is charged `fee`: a frame that
\* cannot pay raises OutOfGasError, one that reads past the buffer
\* OutOfBoundsRead, any other is left with its gas less the fee
ReturnDataCharges(w, fee) ==
  CopiesReturnData(w)
    => IF Top.gas_left < fee THEN After.error = "OutOfGasError"
       ELSE IF w[2] + w[3] > Len(Top.return_data)
       THEN After.error = "OutOfBoundsRead"
       ELSE After.error = NoError /\ After.gas_left = Top.gas_left - fee

\* C32 as stated: CALLDATACOPY, CODECOPY, RETURNDATACOPY and EXTCODECOPY
\* each charge GAS_VERY_LOW (3) + 3 * ceil32(size) / 32 + the memory-
\* expansion cost + the access fees (warm or cold access and the
\* code-access cost for EXTCODECOPY, none for the others).
C32_AsStated ==
  [][\A w \in CopyWindows :
      /\ Charges(Local(calldatacopy(Top, w[1], w[2], w[3])),
                 3 + CopyFee(w))
      /\ Charges(Local(codecopy(Top, w[1], w[2], w[3])), 3 + CopyFee(w))
      /\ \A a \in AccessTargets :
           Charges(Local(extcodecopy(Top, state, a, w[1], w[2], w[3])),
                   3 + CopyFee(w) + AccessFee(a) + CodeFee(a))]_vars
  /\ [][\A w \in ReturnDataWindows :
          ReturnDataCharges(w, 3 + CopyFee(w))]_vars

\* C32 (amended): CALLDATACOPY, CODECOPY and RETURNDATACOPY each charge
\* GAS_VERY_LOW (3) + 3 * ceil32(size) / 32 + the memory-expansion cost and
\* no access fee.  EXTCODECOPY charges 3 * ceil32(size) / 32 + the
\* memory-expansion cost + the access fees (100 for a warm address, 2600
\* for a cold one, and the code-access cost if the address is not in
\* warm_code_addresses), without GAS_VERY_LOW.
C32_CopyCharges ==
  /\ [][\A w \in CopyWindows :
          /\ Charges(Local(calldatacopy(Top, w[1], w[2], w[3])),
                     3 + CopyFee(w))
          /\ Charges(Local(codecopy(Top, w[1], w[2], w[3])), 3 + CopyFee(w))
          /\ \A a \in AccessTargets :
               Charges(Local(extcodecopy(Top, state, a, w[1], w[2], w[3])),
                       CopyFee(w) + AccessFee(a) + CodeFee(a))]_vars
  /\ [][\A w \in ReturnDataWindows :
          ReturnDataCharges(w, 3 + CopyFee(w))]_vars

\* a frame whose only opcode so far copied 33 bytes of the code of B, a
\* cold address: it paid the cold access, the code-access cost, two words
\* of copy and two words of memory, and no GAS_VERY_LOW
C32_Witness ==
  /\ phase = "running"
  /\ Len(frames) = 1
  /\ ~Top.done
  /\ Top.pc = 1
  /\ Len(Top.memory) = 64
  /\ "B" \in Top.warm_code_addresses
  /\ Top.gas_left =
       Top.message.gas
       - (GAS_COLD_ACCOUNT_ACCESS + code_access_cost(ContractB.code)
          + 3 * 2
          + calculate_gas_extend_memory(<<>>, <<(<<0, 33>>)>>).cost)


(***************************************************************************)
(* C33: the value transfer of a child is always funded                     *)
(***************************************************************************)
\* process_message moves the value of the message `m` when it starts
Transfers(m) == m.should_transfer_value /\ m.value # 0

\* C33: for every child spawned by CALL, CALLCODE, DELEGATECALL, STATICCALL,
\* CREATE or CREATE2, the value transfer at the start of process_message
\* never fails for lack of balance: when move_ether runs, the balance of
\* the caller is at least the value.  DELEGATECALL spawns its child with
\* should_transfer_value false and STATICCALL with value 0, so neither
\* moves anything; the other children leave the state as move_ether makes
\* it, and no balance is ever negative.
C33_TransfersFunded ==
  /\ [][Spawns =>
          LET m == Spawned.message
              found == Spawned.pre.state
          IN  /\ Spawned.op \in {"CALL", "CALLCODE", "DELEGATECALL",
                                 "STATICCALL", "CREATE", "CREATE2"}
              /\ Transfers(m) => found[m.caller].balance >= m.value
              /\ (Spawned.op = "DELEGATECALL") => ~m.should_transfer_value
              /\ (Spawned.op = "STATICCALL") => m.value = 0
              /\ state' = IF Transfers(m)
                          THEN [found EXCEPT
                                  ![m.caller].balance = @ - m.value,
                                  ![m.current_target].balance = @ + m.value]
                          ELSE found]_vars
  /\ [](\A a \in Address : state[a].balance >= 0)

\* A has called B with one wei out of the two it held: the child runs and
\* the wei has moved
C33_Witness ==
  /\ phase = "running"
  /\ Len(frames) = 2
  /\ Top.op = "CALL"
  /\ Transfers(Top.message)
  /\ Top.message.caller = "A"
  /\ Top.message.current_target = "B"
  /\ Top.pre.state["A"].balance = 2
  /\ state["A"].balance = 1
  /\ state["B"].balance = 1


(***************************************************************************)
(* C34: where accounts_to_delete comes from                                *)
(***************************************************************************)
\* the step returns the innermost frame to its parent
Unwinds ==
  phase = "running" /\ Len(frames) >= 2 /\ Len(frames') = Len(frames) - 1

\* the step is a SELFDESTRUCT of the running frame that raised nothing, in
\* an account created in this transaction
DestructsCreated ==
  /\ \E b \in Beneficiaries : SelfDestructsTo(b)
  /\ Top.message.current_target \in created_accounts

CreateStops(op, endowment, w, salt) ==
  /\ phase = "running"
  /\ ~Top.done
  /\ ~Top.message.is_static
  /\ \/ CannotCreate(endowment)
     \/ is_collision(state, ContractAddressOf(op, salt))
  /\ create_family(op, endowment, w[1], w[2], salt)
  /\ After.error = NoError

\* C35: on the address-collision path of CREATE and CREATE2 the
\* create_gas taken from the parent is not added back: after the opcode
\* the parent holds only the 1/64 it retained of its gas after the fee of
\* the opcode, unlike the refusals for the balance, the nonce and the
\* depth, after which it holds all of that gas.
C35_CollisionKeepsCreateGas ==
  [][\A op \in {"CREATE", "CREATE2"}, endowment \in Endowments,
      w \in InitCodeWindows, salt \in Salts :
      LET paid == Top.gas_left - CreateFee(op, w)
      IN  CreateStops(op, endowment, w, salt)
            => IF CannotCreate(endowment)
               THEN After.gas_left = paid
               ELSE /\ After.gas_left = paid - max_message_call_gas(paid)
                    /\ After.gas_left = paid \div 64
                    /\ (paid > 0) => After.gas_left < paid]_vars

\* the top frame after a first opcode CREATE2 whose address was that of B:
\* 0 pushed, the nonce of A used, and of the gas left after the fee of the
\* opcode one 64th remains
C35_Witness ==
  /\ Len(frames) = 1
  /\ nframes = 1
  /\ ~Top.done
  /\ Top.pc = 1
  /\ Top.stack = <<0>>
  /\ "B" \in Top.accessed_addresses
  /\ state["A"].nonce = InitialState["A"].nonce + 1
  /\ Top.gas_left =
       (Top.message.gas
        - (GAS_CREATE
           + calculate_gas_extend_memory(<<>>, <<(<<0, 2>>)>>).cost
           + init_code_cost(2)
           + GAS_KECCAK256_WORD * (ceil32(2) \div 32))) \div 64


====
